---- MODULE Spec2Model ----
(***************************************************************************)
(* GitHub Copilot integration of Flowise: the device-flow routes            *)
(* (packages/server/src/routes/github-copilot/index.ts) and the Copilot     *)
(* token cache of the chat model node                                       *)
(* (packages/components/nodes/chatmodels/ChatGitHubCopilot).                *)
(*                                                                          *)
(* Every request is a call slot that moves from "idle" through the awaits   *)
(* of its handler to "done"; the code between two awaits runs atomically    *)
(* (one JavaScript thread), the awaits are where calls interleave.          *)
(***************************************************************************)
EXTENDS Integers, FiniteSets, Sequences, TLC

VARIABLES
    now,                \* Date.now(), in milliseconds, as a Num
    env,                \* process.env (the two device-flow variables)
    creds,              \* the credential repository: id -> decrypted attribute bag
    copilotTokenCache,  \* Map<string, {token, expiresAt}>
    calls,              \* the requests in flight: slot -> call record
    flow,               \* the device flow a caller of the routes drives
    copilotModelCache   \* Map<string, {models, expiresAt}>

vars == <<now, env, creds, copilotTokenCache, calls, flow, copilotModelCache>>

-----------------------------------------------------------------------------
(* Numbers.  Epoch milliseconds and the 10^12 threshold do not fit TLC's    *)
(* 32-bit integers, so a non-negative integer x is held as the pair         *)
(* k = x div 1000, u = x mod 1000.                                          *)

Num(k, u) == [k |-> k, u |-> u]

\* JavaScript's undefined, for a number and for a string.
NoNumber == [k |-> -1, u |-> 0]
Undef == "<undefined>"

Zero == Num(0, 0)

\* a > b
NumGT(a, b) == a.k > b.k \/ (a.k = b.k /\ a.u > b.u)

\* a + n, for a small n >= 0
NumPlus(a, n) == Num(a.k + ((a.u + n) \div 1000), (a.u + n) % 1000)

\* Math.floor(a / 1000)
NumFloorDiv1000(a) == Num(a.k \div 1000, a.k % 1000)

\* JavaScript truthiness of a string | undefined and of a number | undefined.
Truthy(s) == s # Undef /\ s # ""
TruthyNumber(n) == n # NoNumber /\ n # Zero

\* a || b
OrElse(a, b) == IF Truthy(a) THEN a ELSE b

-----------------------------------------------------------------------------
(* Constants of ChatGitHubCopilot.ts *)

TOKEN_REFRESH_BUFFER_SECONDS == 300

\* 1_000_000_000_000 = MS_THRESHOLD_THOUSANDS * 1000
MS_THRESHOLD_THOUSANDS == 1000000000
MS_THRESHOLD == Num(MS_THRESHOLD_THOUSANDS, 0)

-----------------------------------------------------------------------------
(* Bounds of the model *)

\* the clock advances at most MaxTicks times, TickSeconds at a time
MaxTicks == 3
TickSeconds == 150

\* the caller's polls are counted up to MaxPolls
MaxPolls == 3

\* for the model cache the clock advances at most MaxLongTicks times,
\* LongTickSeconds at a time
MaxLongTicks == 3
LongTickSeconds == 450

\* Date.now() at Init: 1_700_000_000 s after the epoch, in milliseconds
StartTime == Num(1700000000, 0)
\* the same instant in seconds
StartSeconds == NumFloorDiv1000(StartTime)

Slots == {"r1", "r2"}

-----------------------------------------------------------------------------
(* The credential's decrypted attribute bag (decryptCredentialData's result). *)
(* An attribute the bag does not hold is undefined.                           *)

EmptyBag ==
    [ deviceFlowClientId    |-> Undef,
      clientId              |-> Undef,
      deviceFlowScope       |-> Undef,
      scope                 |-> Undef,
      githubAccessToken     |-> Undef,
      githubTokenType       |-> Undef,
      githubTokenScope      |-> Undef,
      githubTokenReceivedAt |-> NoNumber,
      copilotToken          |-> Undef,
      copilotTokenExpiresAt |-> NoNumber ]

-----------------------------------------------------------------------------
(* Call records *)

NoRequest == [url |-> Undef, client_id |-> Undef, scope |-> Undef,
              device_code |-> Undef, authorization |-> Undef]

\* response.data of the device-code endpoint (RFC 8628 device authorization)
NoData == [device_code |-> Undef, user_code |-> Undef]

\* What a call answered: the HTTP status code and the JSON body's fields.  For
\* an error passed to next(), code is the InternalFlowiseError's status code,
\* message the text its message starts with and cause the parts that a template
\* literal appends to it, in order (a message is the concatenation of its parts).
NoResponse == [code |-> 0, success |-> FALSE, status |-> Undef, credentialId |-> Undef,
               message |-> Undef, cause |-> <<>>, error_description |-> Undef,
               data |-> NoData]

NoUpstream == [deviceCode |-> 0, accessToken |-> 0, exchange |-> 0]

\* tokenResponse.data of the access-token endpoint
TokenData(access_token, token_type, scope, error, error_description) ==
    [access_token |-> access_token, token_type |-> token_type, scope |-> scope,
     error |-> error, error_description |-> error_description]

NoTokenData == TokenData(Undef, Undef, Undef, Undef, Undef)

\* What axios.post gives: a 2xx response and its data (of the device-code or of
\* the access-token endpoint), or a rejection.  status and body are what the
\* authorization server sent (Undef when nothing came back), message is the
\* parts of the rejection's error.message: for a status outside 2xx axios builds
\* 'Request failed with status code ' + status, for a request that got no
\* response the message is the transport's.
DeviceCodeOk(data) ==
    [ok |-> TRUE, status |-> "200", body |-> Undef, message |-> <<>>,
     data |-> data, tokenData |-> NoTokenData]
AccessTokenOk(tokenData) ==
    [ok |-> TRUE, status |-> "200", body |-> Undef, message |-> <<>>,
     data |-> NoData, tokenData |-> tokenData]
UpstreamStatus(status, body) ==
    [ok |-> FALSE, status |-> status, body |-> body,
     message |-> <<"Request failed with status code ", status>>,
     data |-> NoData, tokenData |-> NoTokenData]
UpstreamUnreachable(message) ==
    [ok |-> FALSE, status |-> Undef, body |-> Undef, message |-> <<message>>,
     data |-> NoData, tokenData |-> NoTokenData]
NoReceived ==
    [ok |-> FALSE, status |-> Undef, body |-> Undef, message |-> <<>>,
     data |-> NoData, tokenData |-> NoTokenData]

\* A text that the code trims or cuts is held as the sequence of its pieces: a
\* piece is one character (" ", "/") or a run of other characters.  UndefText is
\* undefined (or null), <<>> the empty string.
UndefText == <<Undef>>
TruthyText(t) == t # UndefText /\ t # <<>>

\* a ?? b
Nullish(a, b) == IF a # UndefText THEN a ELSE b

\* One element of a model list as the Copilot API sends it: null, a number, a
\* string, or an object with some of id, name, model, slug, label, display_name,
\* displayName.
Item(kind, text, id, name, model, slug, label, display_name, displayName) ==
    [kind |-> kind, text |-> text, id |-> id, name |-> name, model |-> model, slug |-> slug,
     label |-> label, display_name |-> display_name, displayName |-> displayName]
ItemNull == Item("null", UndefText, UndefText, UndefText, UndefText, UndefText,
                 UndefText, UndefText, UndefText)
ItemNumber == [ItemNull EXCEPT !.kind = "number"]
ItemString(text) == [ItemNull EXCEPT !.kind = "string", !.text = text]
ItemObject(id, name, model, slug, label, display_name, displayName) ==
    Item("object", UndefText, id, name, model, slug, label, display_name, displayName)

\* A value of the payload: an array with its elements, or anything else.
NotArray == [isArray |-> FALSE, elems |-> <<>>]
Array(elems) == [isArray |-> TRUE, elems |-> elems]

\* response.json() of the model list: the payload itself when it is an array,
\* and what it holds under data, models and items.
Payload(self, data, models, items) ==
    [self |-> self, data |-> data, models |-> models, items |-> items]
NoPayload == Payload(NotArray, NotArray, NotArray, NotArray)

\* What fetch gives for the model list: a response (ok for a 2xx status) with
\* what response.json() or response.text() reads from it, or a rejection with
\* its message in body.
ModelsOk(payload) ==
    [ok |-> TRUE, rejected |-> FALSE, status |-> "200", statusText |-> "OK", body |-> Undef,
     payload |-> payload]
ModelsFailed(status, statusText, body) ==
    [ok |-> FALSE, rejected |-> FALSE, status |-> status, statusText |-> statusText,
     body |-> body, payload |-> NoPayload]
ModelsRejected(message) ==
    [ok |-> FALSE, rejected |-> TRUE, status |-> Undef, statusText |-> Undef,
     body |-> message, payload |-> NoPayload]
NoFetched ==
    [ok |-> FALSE, rejected |-> FALSE, status |-> Undef, statusText |-> Undef,
     body |-> Undef, payload |-> NoPayload]

Idle ==
    [ op            |-> "none",
      pc            |-> "idle",
      key           |-> Undef,        \* req.params.credentialId, or cacheKey
      deviceCode    |-> Undef,        \* pollDeviceFlow's deviceCode
      decryptedData |-> EmptyBag,     \* pollDeviceFlow's local across its await
      request       |-> NoRequest,    \* the upstream request awaited
      upstream      |-> NoUpstream,   \* upstream requests this call has sent
      received      |-> NoReceived,   \* what axios.post gave this call
      repoReads     |-> 0,            \* credentialRepository.findOneBy calls
      repoWrites    |-> 0,            \* credentialRepository.update calls
      response      |-> NoResponse,   \* what the route answered
      returned      |-> Undef,        \* what getCopilotToken returned
      threw         |-> Undef,        \* the error getCopilotToken threw: the text
                                      \* its message starts with (response.cause
                                      \* holds the parts after it)
      via           |-> "none",       \* where the returned token or list came from
      modelKey      |-> <<>>,         \* listModels' cacheKey (of the model cache)
      baseUrl       |-> <<>>,         \* listModels' baseUrl
      fetched       |-> NoFetched,    \* what fetch gave for the model list
      modelRequests |-> 0,            \* requests sent for the model list
      modelDeletes  |-> 0,            \* copilotModelCache.delete calls
      modelSets     |-> 0,            \* copilotModelCache.set calls
      listed        |-> <<>> ]        \* what listModels returned

\* The caller's device flow: where it stands, the device_code it polls with, and
\* how many polls it has made (counted up to MaxPolls).  The routes neither read
\* nor write it.
NoFlow == [state |-> "NOT_STARTED", deviceCode |-> Undef, polls |-> 0]

-----------------------------------------------------------------------------
(* ChatGitHubCopilot.ts: the Copilot token cache *)

NoEntry == [token |-> Undef, expiresAt |-> NoNumber]

\* the keys getCopilotToken is called with (a credential id or a raw access token)
CacheKeys == {"cred-1", "cred-2"}

\* normalizeExpiresAt with >= for >: 10^12 itself is taken for milliseconds.
normalizeExpiresAtInclusive(expiresAt) ==
    IF ~NumGT(MS_THRESHOLD, expiresAt)
        THEN NumFloorDiv1000(expiresAt)
        ELSE expiresAt

normalizeExpiresAt(expiresAt) ==
    IF NumGT(expiresAt, MS_THRESHOLD)
        THEN NumFloorDiv1000(expiresAt)
        ELSE expiresAt

\* isFresh with >= for >: an expiry of exactly now + 300 counts as fresh.
isFreshInclusive(expiresAt, nowMs) ==
    ~NumGT(NumPlus(NumFloorDiv1000(nowMs), TOKEN_REFRESH_BUFFER_SECONDS), expiresAt)

\* expiresAt > Date.now() / 1000 + TOKEN_REFRESH_BUFFER_SECONDS.  expiresAt is
\* a whole number, so the fraction of Date.now() / 1000 decides nothing:
\* e > t + 300 iff e > floor(t) + 300.
isFresh(expiresAt, nowMs) ==
    NumGT(expiresAt, NumPlus(NumFloorDiv1000(nowMs), TOKEN_REFRESH_BUFFER_SECONDS))

\* The lookup with its two branches swapped: the snapshot is asked first.
getCachedCopilotTokenSnapshotFirst(cache, nowMs, cacheKey, credentialData) ==
    LET cached == cache[cacheKey]
        storedToken == credentialData.copilotToken
        storedExpiresAt == credentialData.copilotTokenExpiresAt
        normalizedExpiresAt == normalizeExpiresAt(storedExpiresAt)
    IN  IF /\ Truthy(storedToken)
           /\ TruthyNumber(storedExpiresAt)
           /\ isFresh(normalizedExpiresAt, nowMs)
            THEN [token |-> storedToken,
                  cache |-> [cache EXCEPT ![cacheKey] =
                                [token |-> storedToken, expiresAt |-> normalizedExpiresAt]],
                  via   |-> "snapshot"]
        ELSE IF cached # NoEntry /\ isFresh(cached.expiresAt, nowMs)
            THEN [token |-> cached.token, cache |-> cache, via |-> "cache"]
        ELSE [token |-> Undef, cache |-> cache, via |-> "none"]

\* The lookup that stores the snapshot's expiry as it finds it, milliseconds or
\* seconds.
getCachedCopilotTokenSeedingRaw(cache, nowMs, cacheKey, credentialData) ==
    LET cached == cache[cacheKey]
        storedToken == credentialData.copilotToken
        storedExpiresAt == credentialData.copilotTokenExpiresAt
        normalizedExpiresAt == normalizeExpiresAt(storedExpiresAt)
    IN  IF cached # NoEntry /\ isFresh(cached.expiresAt, nowMs)
            THEN [token |-> cached.token, cache |-> cache, via |-> "cache"]
        ELSE IF /\ Truthy(storedToken)
                /\ TruthyNumber(storedExpiresAt)
                /\ isFresh(normalizedExpiresAt, nowMs)
            THEN [token |-> storedToken,
                  cache |-> [cache EXCEPT ![cacheKey] =
                                [token |-> storedToken, expiresAt |-> storedExpiresAt]],
                  via   |-> "snapshot"]
        ELSE [token |-> Undef, cache |-> cache, via |-> "none"]

\* The lookup that deletes the entry it finds stale, as getCachedCopilotModels
\* does for the model cache.
getCachedCopilotTokenEvicting(cache, nowMs, cacheKey, credentialData) ==
    LET cached == cache[cacheKey]
        storedToken == credentialData.copilotToken
        storedExpiresAt == credentialData.copilotTokenExpiresAt
        normalizedExpiresAt == normalizeExpiresAt(storedExpiresAt)
    IN  IF cached # NoEntry /\ isFresh(cached.expiresAt, nowMs)
            THEN [token |-> cached.token, cache |-> cache, via |-> "cache"]
        ELSE IF /\ Truthy(storedToken)
                /\ TruthyNumber(storedExpiresAt)
                /\ isFresh(normalizedExpiresAt, nowMs)
            THEN [token |-> storedToken,
                  cache |-> [cache EXCEPT ![cacheKey] =
                                [token |-> storedToken, expiresAt |-> normalizedExpiresAt]],
                  via   |-> "snapshot"]
        ELSE [token |-> Undef, cache |-> [cache EXCEPT ![cacheKey] = NoEntry], via |-> "none"]

\* The lookup: the token returned (Undef for undefined), the cache it leaves,
\* and which branch answered.
getCachedCopilotToken(cache, nowMs, cacheKey, credentialData) ==
    LET cached == cache[cacheKey]
        storedToken == credentialData.copilotToken
        storedExpiresAt == credentialData.copilotTokenExpiresAt
        normalizedExpiresAt == normalizeExpiresAt(storedExpiresAt)
    IN  IF cached # NoEntry /\ isFresh(cached.expiresAt, nowMs)
            THEN [token |-> cached.token, cache |-> cache, via |-> "cache"]
        ELSE IF /\ Truthy(storedToken)
                /\ TruthyNumber(storedExpiresAt)
                /\ isFresh(normalizedExpiresAt, nowMs)
            THEN [token |-> storedToken,
                  cache |-> [cache EXCEPT ![cacheKey] =
                                [token |-> storedToken, expiresAt |-> normalizedExpiresAt]],
                  via   |-> "snapshot"]
        ELSE [token |-> Undef, cache |-> cache, via |-> "none"]

\* fetchCopilotToken's request
ExchangeRequest(githubAccessToken) ==
    [NoRequest EXCEPT !.url = "COPILOT_TOKEN_URL", !.authorization = githubAccessToken]

\* fetchCopilotToken's result for a 2xx response
fetchCopilotTokenResult(data) ==
    [token |-> data.token, expiresAt |-> normalizeExpiresAt(data.expires_at)]

\* fetchCopilotTokenError without response.text(): the status line only.
fetchCopilotTokenErrorStatusOnly(resp) ==
    IF resp.rejected
        THEN [text |-> resp.body, parts |-> <<>>]
        ELSE [text  |-> "Failed to get Copilot token: ",
              parts |-> <<resp.status, " ", resp.statusText>>]

\* The error fetchCopilotToken ends with when it has no token to return: the one
\* it throws for a response that is not ok, with response.status,
\* response.statusText and the body's text in its message, or the one fetch
\* rejected with when no response came.
fetchCopilotTokenError(resp) ==
    IF resp.rejected
        THEN [text |-> resp.body, parts |-> <<>>]
        ELSE [text  |-> "Failed to get Copilot token: ",
              parts |-> <<resp.status, " ", resp.statusText, " - ", resp.body>>]

\* getCopilotToken up to its await: the lookup, and when it finds nothing the
\* exchange request.
GetCopilotTokenBegin(c, cacheKey, githubAccessToken, credentialData) ==
    /\ calls[c].pc = "idle"
    /\ LET r == getCachedCopilotToken(copilotTokenCache, now, cacheKey, credentialData)
       IN  /\ copilotTokenCache' = r.cache
           /\ IF Truthy(r.token)
                 THEN calls' = [calls EXCEPT ![c] =
                        [Idle EXCEPT !.op = "getCopilotToken", !.pc = "done", !.key = cacheKey,
                                     !.returned = r.token, !.via = r.via]]
                 ELSE calls' = [calls EXCEPT ![c] =
                        [Idle EXCEPT !.op = "getCopilotToken", !.pc = "awaitExchange",
                                     !.key = cacheKey,
                                     !.request = ExchangeRequest(githubAccessToken),
                                     !.upstream.exchange = 1]]
    /\ UNCHANGED <<now, env, creds, flow, copilotModelCache>>

\* GetCopilotTokenEnd that keeps the later of the entry's expiry and the
\* response's.
GetCopilotTokenEndKeepingLaterExpiry(c, resp) ==
    /\ calls[c].pc = "awaitExchange"
    /\ IF resp.ok
         THEN LET r == fetchCopilotTokenResult(resp)
                  cached == copilotTokenCache[calls[c].key]
              IN  /\ copilotTokenCache' = [copilotTokenCache EXCEPT ![calls[c].key] =
                          [token     |-> r.token,
                           expiresAt |-> IF NumGT(cached.expiresAt, r.expiresAt)
                                             THEN cached.expiresAt ELSE r.expiresAt]]
                  /\ calls' = [calls EXCEPT ![c].pc = "done", ![c].request = NoRequest,
                                            ![c].returned = r.token, ![c].via = "exchange"]
         ELSE /\ calls' = [calls EXCEPT ![c].pc = "done", ![c].request = NoRequest,
                                        ![c].threw = fetchCopilotTokenError(resp).text,
                                        ![c].response.cause = fetchCopilotTokenError(resp).parts]
              /\ UNCHANGED copilotTokenCache
    /\ UNCHANGED <<now, env, creds, flow, copilotModelCache>>

\* GetCopilotTokenEnd without copilotTokenCache.set: the token is returned and
\* not kept.
GetCopilotTokenEndNotStoring(c, resp) ==
    /\ calls[c].pc = "awaitExchange"
    /\ IF resp.ok
         THEN LET r == fetchCopilotTokenResult(resp)
              IN  calls' = [calls EXCEPT ![c].pc = "done", ![c].request = NoRequest,
                                         ![c].returned = r.token, ![c].via = "exchange"]
         ELSE calls' = [calls EXCEPT ![c].pc = "done", ![c].request = NoRequest,
                                     ![c].threw = fetchCopilotTokenError(resp).text,
                                     ![c].response.cause = fetchCopilotTokenError(resp).parts]
    /\ UNCHANGED <<now, env, creds, copilotTokenCache, flow, copilotModelCache>>

\* GetCopilotTokenEnd that also saves the exchanged token in the credential
GetCopilotTokenEndPersisting(c, resp) ==
    /\ calls[c].pc = "awaitExchange"
    /\ IF resp.ok
         THEN LET r == fetchCopilotTokenResult(resp)
              IN  /\ copilotTokenCache' = [copilotTokenCache EXCEPT ![calls[c].key] =
                                              [token |-> r.token, expiresAt |-> r.expiresAt]]
                  /\ creds' = [creds EXCEPT ![calls[c].key].copilotToken = r.token,
                                            ![calls[c].key].copilotTokenExpiresAt = r.expiresAt]
                  /\ calls' = [calls EXCEPT ![c].pc = "done", ![c].request = NoRequest,
                                            ![c].returned = r.token, ![c].via = "exchange"]
         ELSE /\ calls' = [calls EXCEPT ![c].pc = "done", ![c].request = NoRequest,
                                        ![c].threw = fetchCopilotTokenError(resp).text,
                                        ![c].response.cause = fetchCopilotTokenError(resp).parts]
              /\ UNCHANGED <<copilotTokenCache, creds>>
    /\ UNCHANGED <<now, env, flow, copilotModelCache>>

\* GetCopilotTokenEnd that refuses a token which is not fresh when it arrives
GetCopilotTokenEndCheckingFreshness(c, resp) ==
    /\ calls[c].pc = "awaitExchange"
    /\ IF resp.ok /\ isFresh(fetchCopilotTokenResult(resp).expiresAt, now)
         THEN LET r == fetchCopilotTokenResult(resp)
              IN  /\ copilotTokenCache' = [copilotTokenCache EXCEPT ![calls[c].key] =
                                              [token |-> r.token, expiresAt |-> r.expiresAt]]
                  /\ calls' = [calls EXCEPT ![c].pc = "done", ![c].request = NoRequest,
                                            ![c].returned = r.token, ![c].via = "exchange"]
         ELSE /\ calls' = [calls EXCEPT ![c].pc = "done", ![c].request = NoRequest,
                                        ![c].threw = fetchCopilotTokenError(resp).text,
                                        ![c].response.cause = fetchCopilotTokenError(resp).parts]
              /\ UNCHANGED copilotTokenCache
    /\ UNCHANGED <<now, env, creds, flow, copilotModelCache>>

\* GetCopilotTokenEnd on a cache that holds one token for all keys
GetCopilotTokenEndSharedEntry(c, resp) ==
    /\ calls[c].pc = "awaitExchange"
    /\ IF resp.ok
         THEN LET r == fetchCopilotTokenResult(resp)
              IN  /\ copilotTokenCache' = [k \in DOMAIN copilotTokenCache |->
                                              [token |-> r.token, expiresAt |-> r.expiresAt]]
                  /\ calls' = [calls EXCEPT ![c].pc = "done", ![c].request = NoRequest,
                                            ![c].returned = r.token, ![c].via = "exchange"]
         ELSE /\ calls' = [calls EXCEPT ![c].pc = "done", ![c].request = NoRequest,
                                        ![c].threw = fetchCopilotTokenError(resp).text,
                                        ![c].response.cause = fetchCopilotTokenError(resp).parts]
              /\ UNCHANGED copilotTokenCache
    /\ UNCHANGED <<now, env, creds, flow, copilotModelCache>>

\* getCopilotToken after its await: the exchange endpoint answered.
GetCopilotTokenEnd(c, resp) ==
    /\ calls[c].pc = "awaitExchange"
    /\ IF resp.ok
         THEN LET r == fetchCopilotTokenResult(resp)
              IN  /\ copilotTokenCache' = [copilotTokenCache EXCEPT ![calls[c].key] =
                                              [token |-> r.token, expiresAt |-> r.expiresAt]]
                  /\ calls' = [calls EXCEPT ![c].pc = "done", ![c].request = NoRequest,
                                            ![c].returned = r.token, ![c].via = "exchange"]
         ELSE /\ calls' = [calls EXCEPT ![c].pc = "done", ![c].request = NoRequest,
                                        ![c].threw = fetchCopilotTokenError(resp).text,
                                        ![c].response.cause = fetchCopilotTokenError(resp).parts]
              /\ UNCHANGED copilotTokenCache
    /\ UNCHANGED <<now, env, creds, flow, copilotModelCache>>

\* credentialRepository.findOneBy({ id }) finds a credential
Found(credentialId) == credentialId \in DOMAIN creds

\* nodeData.inputs.baseOptions: undefined, an object of headers, or a string,
\* which is JSON for an object of headers or is not JSON.  headers is the
\* object, a function from header names to values.
BaseOptions(kind, headers) == [kind |-> kind, headers |-> headers]
NoBaseOptions == BaseOptions("undefined", <<>>)

\* nodeData of a chat model node, as far as init and listModels read it: the id
\* of its credential, and what its inputs hold under credentialId,
\* githubAccessToken, basepath and baseOptions
NodeData(credential, credentialId, githubAccessToken) ==
    [credential |-> credential,
     inputs     |-> [credentialId |-> credentialId, githubAccessToken |-> githubAccessToken,
                     basepath |-> UndefText, baseOptions |-> NoBaseOptions]]

\* getCredentialData(selectedCredentialId, options): the decrypted bag of the
\* stored credential, {} when there is no id or no such credential
getCredentialData(selectedCredentialId) ==
    IF Truthy(selectedCredentialId) /\ Found(selectedCredentialId)
        THEN creds[selectedCredentialId]
        ELSE EmptyBag

\* getCredentialParam('githubAccessToken', credentialData, nodeData):
\* nodeData.inputs[paramName] ?? credentialData[paramName]
getCredentialParam(credentialData, nodeData) ==
    IF nodeData.inputs.githubAccessToken # Undef
        THEN nodeData.inputs.githubAccessToken
        ELSE credentialData.githubAccessToken

\* init that refuses an undefined githubAccessToken only: with an empty one it
\* goes on to getCopilotToken
ChatGitHubCopilot_initAcceptingEmptyToken(c, nodeData) ==
    LET credentialData == getCredentialData(OrElse(nodeData.credential, ""))
        githubAccessToken == getCredentialParam(credentialData, nodeData)
        cacheKey == OrElse(nodeData.credential, githubAccessToken)
    IN  IF githubAccessToken = Undef \/ ~Truthy(cacheKey)
          THEN /\ calls[c].pc = "idle"
               /\ calls' = [calls EXCEPT ![c] =
                     [Idle EXCEPT !.op = "init", !.pc = "done", !.key = nodeData.credential,
                                  !.threw = "GitHub access token not found"]]
               /\ UNCHANGED <<now, env, creds, copilotTokenCache, flow, copilotModelCache>>
          ELSE GetCopilotTokenBegin(c, cacheKey, githubAccessToken, credentialData)

\* ChatGitHubCopilot_ChatModels.init up to getCopilotToken's await:
\* getCredentialData reads the stored bag, the node throws when it finds no
\* githubAccessToken, and getCopilotToken is called with the credential id (the
\* access token, for a node without one) as cacheKey and the bag as
\* credentialData.
ChatGitHubCopilot_init(c, nodeData) ==
    LET credentialData == getCredentialData(OrElse(nodeData.credential, ""))
        githubAccessToken == getCredentialParam(credentialData, nodeData)
        cacheKey == OrElse(nodeData.credential, githubAccessToken)
    IN  IF ~Truthy(githubAccessToken)
          THEN /\ calls[c].pc = "idle"
               /\ calls' = [calls EXCEPT ![c] =
                     [Idle EXCEPT !.op = "init", !.pc = "done", !.key = nodeData.credential,
                                  !.threw = "GitHub access token not found"]]
               /\ UNCHANGED <<now, env, creds, copilotTokenCache, flow, copilotModelCache>>
          ELSE GetCopilotTokenBegin(c, cacheKey, githubAccessToken, credentialData)

\* The caller takes the call's result; the slot is free for the next request.
Return(c) ==
    /\ calls[c].pc = "done"
    /\ calls' = [calls EXCEPT ![c] = Idle]
    /\ UNCHANGED <<now, env, creds, copilotTokenCache, flow, copilotModelCache>>

\* Time passes.
Tick ==
    /\ now.k < StartTime.k + MaxTicks * TickSeconds
    /\ now' = Num(now.k + TickSeconds, now.u)
    /\ UNCHANGED <<env, creds, copilotTokenCache, calls, flow, copilotModelCache>>

-----------------------------------------------------------------------------
(* ChatGitHubCopilot.ts: the model list and its cache *)

DEFAULT_BASE_URL == <<"https://api.githubcopilot.com">>

\* 15 * 60 * 1000 milliseconds
COPILOT_MODEL_CACHE_TTL_MS == Num(15 * 60, 0)

\* a + b
NumAdd(a, b) == Num(a.k + b.k + ((a.u + b.u) \div 1000), (a.u + b.u) % 1000)

\* String.prototype.trim
RECURSIVE TrimStart(_)
TrimStart(t) == IF t # <<>> /\ Head(t) = " " THEN TrimStart(Tail(t)) ELSE t
RECURSIVE TrimEnd(_)
TrimEnd(t) ==
    IF t # <<>> /\ t[Len(t)] = " " THEN TrimEnd(SubSeq(t, 1, Len(t) - 1)) ELSE t
Trim(t) == TrimEnd(TrimStart(t))

\* replace(/\/+$/, '')
RECURSIVE StripTrailingSlashes(_)
StripTrailingSlashes(t) ==
    IF t # <<>> /\ t[Len(t)] = "/"
        THEN StripTrailingSlashes(SubSeq(t, 1, Len(t) - 1))
        ELSE t

normalizeBaseUrl(baseUrl) ==
    LET trimmed == IF baseUrl = UndefText THEN UndefText ELSE Trim(baseUrl)
    IN  IF ~TruthyText(trimmed) THEN DEFAULT_BASE_URL ELSE StripTrailingSlashes(trimmed)

\* parseAdditionalHeaders: undefined, the headers, or the error of JSON.parse
parseAdditionalHeaders(baseOptions) ==
    IF baseOptions.kind = "undefined"
        THEN [threw |-> FALSE, defined |-> FALSE, headers |-> <<>>]
    ELSE IF baseOptions.kind \in {"object", "json"}
        THEN [threw |-> FALSE, defined |-> TRUE, headers |-> baseOptions.headers]
    ELSE [threw |-> TRUE, defined |-> FALSE, headers |-> <<>>]

\* the header names of the model, in the order Array.prototype.sort gives them
HeaderOrder == <<"X-Org", "X-Team">>

RECURSIVE JoinHeaders(_, _)
JoinHeaders(keys, headers) ==
    IF keys = <<>> THEN <<>>
    ELSE <<Head(keys), ":", headers[Head(keys)]>>
            \o (IF Tail(keys) = <<>> THEN <<>> ELSE <<"|">>)
            \o JoinHeaders(Tail(keys), headers)

\* buildModelCacheKey: the parts of the template literal
buildModelCacheKey(tokenCacheKey, baseUrl, additionalHeaders) ==
    IF ~additionalHeaders.defined
        THEN <<"copilot-models:", tokenCacheKey, ":", baseUrl>>
        ELSE LET sorted == SelectSeq(HeaderOrder, LAMBDA k : k \in DOMAIN additionalHeaders.headers)
             IN  <<"copilot-models:", tokenCacheKey, ":", baseUrl, ":",
                   JoinHeaders(sorted, additionalHeaders.headers)>>

NoModelEntry == [models |-> <<>>, expiresAt |-> NoNumber]

\* getCachedCopilotModels that still serves an entry at the instant it expires
getCachedCopilotModelsInclusive(cache, nowMs, cacheKey) ==
    LET cached == cache[cacheKey]
    IN  IF cached # NoModelEntry /\ ~NumGT(nowMs, cached.expiresAt)
            THEN [found |-> TRUE, models |-> cached.models, cache |-> cache, deletes |-> 0]
        ELSE IF cached # NoModelEntry
            THEN [found |-> FALSE, models |-> <<>>,
                  cache |-> [cache EXCEPT ![cacheKey] = NoModelEntry], deletes |-> 1]
        ELSE [found |-> FALSE, models |-> <<>>, cache |-> cache, deletes |-> 0]

\* getCachedCopilotModels: the models returned (found is false for undefined),
\* the cache it leaves, and how many entries it deleted
getCachedCopilotModels(cache, nowMs, cacheKey) ==
    LET cached == cache[cacheKey]
    IN  IF cached # NoModelEntry /\ NumGT(cached.expiresAt, nowMs)
            THEN [found |-> TRUE, models |-> cached.models, cache |-> cache, deletes |-> 0]
        ELSE IF cached # NoModelEntry
            THEN [found |-> FALSE, models |-> <<>>,
                  cache |-> [cache EXCEPT ![cacheKey] = NoModelEntry], deletes |-> 1]
        ELSE [found |-> FALSE, models |-> <<>>, cache |-> cache, deletes |-> 0]

\* cacheCopilotModels: the cache it leaves
cacheCopilotModels(cache, nowMs, cacheKey, models) ==
    IF Len(models) = 0
        THEN cache
        ELSE [cache EXCEPT ![cacheKey] =
                [models |-> models, expiresAt |-> NumAdd(nowMs, COPILOT_MODEL_CACHE_TTL_MS)]]

\* an INodeOptionsValue
Option(label, name) == [label |-> label, name |-> name]

\* addModel: options after it (seen is the names of options)
addModel(options, name, label) ==
    IF ~TruthyText(name) THEN options
    ELSE LET trimmed == Trim(name)
             seen == { options[i].name : i \in 1..Len(options) }
             trimmedLabel == IF label = UndefText THEN UndefText ELSE Trim(label)
         IN  IF ~TruthyText(trimmed) \/ trimmed \in seen THEN options
             ELSE Append(options,
                         Option(IF TruthyText(trimmedLabel) THEN trimmedLabel ELSE trimmed,
                                trimmed))

\* readItem: options after it
readItem(options, item) ==
    IF item.kind = "null" \/ (item.kind = "string" /\ item.text = <<>>) THEN options
    ELSE IF item.kind = "string" THEN addModel(options, item.text, UndefText)
    ELSE IF item.kind = "object"
        THEN addModel(options,
                      Nullish(item.id, Nullish(item.name, Nullish(item.model, item.slug))),
                      Nullish(item.label, Nullish(item.display_name, item.displayName)))
    ELSE options

\* array.forEach(readItem)
RECURSIVE forEachReadItem(_, _)
forEachReadItem(options, array) ==
    IF array = <<>> THEN options
    ELSE forEachReadItem(readItem(options, Head(array)), Tail(array))

\* normalizeCopilotModels that goes on to the next shape when an array yields
\* no model
normalizeCopilotModelsFirstNonEmpty(payload) ==
    IF payload.self.isArray THEN forEachReadItem(<<>>, payload.self.elems)
    ELSE IF payload.data.isArray /\ forEachReadItem(<<>>, payload.data.elems) # <<>>
        THEN forEachReadItem(<<>>, payload.data.elems)
    ELSE IF payload.models.isArray /\ forEachReadItem(<<>>, payload.models.elems) # <<>>
        THEN forEachReadItem(<<>>, payload.models.elems)
    ELSE IF payload.items.isArray THEN forEachReadItem(<<>>, payload.items.elems)
    ELSE <<>>

\* normalizeCopilotModels: the options it returns for response.json()
normalizeCopilotModels(payload) ==
    IF payload.self.isArray THEN forEachReadItem(<<>>, payload.self.elems)
    ELSE IF payload.data.isArray THEN forEachReadItem(<<>>, payload.data.elems)
    ELSE IF payload.models.isArray THEN forEachReadItem(<<>>, payload.models.elems)
    ELSE IF payload.items.isArray THEN forEachReadItem(<<>>, payload.items.elems)
    ELSE <<>>

\* getModels(MODEL_TYPE.CHAT, 'chatGitHubCopilot'): the models of models.json
fallbackModels == << Option(<<"gpt-4o">>, <<"gpt-4o">>) >>

\* fetchCopilotModels' request
ModelListRequest(copilotToken) ==
    [NoRequest EXCEPT !.url = "COPILOT_MODEL_LIST_PATH", !.authorization = copilotToken]

\* return fallbackModels
ReturnFallback(call) ==
    [call EXCEPT !.pc = "done", !.request = NoRequest, !.via = "fallback",
                 !.listed = fallbackModels]

\* loadMethods.listModels up to its first await of a request: the credential,
\* the lookup in the model cache, and getCopilotToken up to its await.
ListModelsBegin(c, nodeData) ==
    /\ calls[c].pc = "idle"
    /\ LET credentialId == OrElse(nodeData.inputs.credentialId, nodeData.credential)
           call == [Idle EXCEPT !.op = "listModels", !.key = credentialId]
           credentialData == getCredentialData(credentialId)
           githubAccessToken == getCredentialParam(credentialData, nodeData)
           baseUrl == normalizeBaseUrl(nodeData.inputs.basepath)
           additionalHeaders == parseAdditionalHeaders(nodeData.inputs.baseOptions)
           tokenCacheKey == OrElse(credentialId, githubAccessToken)
           cacheKey == buildModelCacheKey(tokenCacheKey, baseUrl, additionalHeaders)
           cachedModels == getCachedCopilotModels(copilotModelCache, now, cacheKey)
           r == getCachedCopilotToken(copilotTokenCache, now, tokenCacheKey, credentialData)
           looking == [call EXCEPT !.modelKey = cacheKey, !.baseUrl = baseUrl,
                                   !.modelDeletes = cachedModels.deletes]
       IN  IF ~Truthy(credentialId) \/ ~Truthy(githubAccessToken)
             THEN /\ calls' = [calls EXCEPT ![c] = ReturnFallback(call)]
                  /\ UNCHANGED <<copilotTokenCache, copilotModelCache>>
           ELSE IF additionalHeaders.threw
             THEN /\ calls' = [calls EXCEPT ![c] =
                        [call EXCEPT !.pc = "done",
                                     !.threw = "Invalid JSON in the GitHub Copilot's Additional Headers: "]]
                  /\ UNCHANGED <<copilotTokenCache, copilotModelCache>>
           ELSE IF cachedModels.found
             THEN /\ calls' = [calls EXCEPT ![c] =
                        [looking EXCEPT !.pc = "done", !.via = "modelCache",
                                        !.listed = cachedModels.models]]
                  /\ copilotModelCache' = cachedModels.cache
                  /\ UNCHANGED copilotTokenCache
           ELSE /\ copilotModelCache' = cachedModels.cache
                /\ copilotTokenCache' = r.cache
                /\ calls' = [calls EXCEPT ![c] =
                      IF Truthy(r.token)
                        THEN [looking EXCEPT !.pc = "awaitModels",
                                             !.request = ModelListRequest(r.token),
                                             !.modelRequests = 1]
                        ELSE [looking EXCEPT !.pc = "awaitListExchange",
                                             !.request = ExchangeRequest(githubAccessToken),
                                             !.upstream.exchange = 1]]
    /\ UNCHANGED <<now, env, creds, flow>>

\* listModels after getCopilotToken's await: the exchange endpoint answered.  A
\* token is stored and fetchCopilotModels sends its request; an error is caught.
ListModelsExchanged(c, resp) ==
    /\ calls[c].pc = "awaitListExchange"
    /\ IF resp.ok
         THEN LET r == fetchCopilotTokenResult(resp)
              IN  /\ copilotTokenCache' = [copilotTokenCache EXCEPT ![calls[c].key] =
                                              [token |-> r.token, expiresAt |-> r.expiresAt]]
                  /\ calls' = [calls EXCEPT ![c].pc = "awaitModels",
                                            ![c].request = ModelListRequest(r.token),
                                            ![c].modelRequests = 1]
         ELSE /\ calls' = [calls EXCEPT ![c] = ReturnFallback(calls[c])]
              /\ UNCHANGED copilotTokenCache
    /\ UNCHANGED <<now, env, creds, flow, copilotModelCache>>

\* ListModelsEnd that caches what it returns, the fallback list too
ListModelsEndCachingFallback(c, resp) ==
    /\ calls[c].pc = "awaitModels"
    /\ LET models == normalizeCopilotModels(resp.payload)
       IN  IF resp.ok /\ Len(models) # 0
             THEN /\ copilotModelCache' =
                        cacheCopilotModels(copilotModelCache, now, calls[c].modelKey, models)
                  /\ calls' = [calls EXCEPT ![c].pc = "done", ![c].request = NoRequest,
                                            ![c].fetched = resp, ![c].via = "fetched",
                                            ![c].modelSets = 1,
                                            ![c].listed = models]
             ELSE /\ calls' = [calls EXCEPT ![c] =
                        [ReturnFallback(calls[c]) EXCEPT !.fetched = resp, !.modelSets = 1]]
                  /\ copilotModelCache' =
                        cacheCopilotModels(copilotModelCache, now, calls[c].modelKey,
                                           fallbackModels)
    /\ UNCHANGED <<now, env, creds, copilotTokenCache, flow>>

\* listModels after fetchCopilotModels' await: the model list answered.  A list
\* that normalizes to at least one model is cached and returned; anything else
\* (no model, a status outside 2xx, no response) ends with fallbackModels.
ListModelsEnd(c, resp) ==
    /\ calls[c].pc = "awaitModels"
    /\ LET models == normalizeCopilotModels(resp.payload)
       IN  IF resp.ok /\ Len(models) # 0
             THEN /\ copilotModelCache' =
                        cacheCopilotModels(copilotModelCache, now, calls[c].modelKey, models)
                  /\ calls' = [calls EXCEPT ![c].pc = "done", ![c].request = NoRequest,
                                            ![c].fetched = resp, ![c].via = "fetched",
                                            ![c].modelSets = 1,
                                            ![c].listed = models]
             ELSE /\ calls' = [calls EXCEPT ![c] =
                        [ReturnFallback(calls[c]) EXCEPT !.fetched = resp]]
                  /\ UNCHANGED copilotModelCache
    /\ UNCHANGED <<now, env, creds, copilotTokenCache, flow>>

-----------------------------------------------------------------------------
(* routes/github-copilot/index.ts: the device flow *)

DEFAULT_GITHUB_DEVICE_FLOW_CLIENT_ID == "Iv1.b507a08c87ecfe98"
DEFAULT_GITHUB_DEVICE_FLOW_SCOPE == "read:user workflow repo"

\* resolveDeviceFlowConfig with the environment ahead of the credential
resolveDeviceFlowConfigEnvFirst(credentialData) ==
    [ clientId |->
        OrElse(OrElse(OrElse(env.GITHUB_DEVICE_FLOW_CLIENT_ID,
                             credentialData.deviceFlowClientId),
                      credentialData.clientId),
               DEFAULT_GITHUB_DEVICE_FLOW_CLIENT_ID),
      scope |->
        OrElse(OrElse(OrElse(env.GITHUB_DEVICE_FLOW_SCOPE,
                             credentialData.deviceFlowScope),
                      credentialData.scope),
               DEFAULT_GITHUB_DEVICE_FLOW_SCOPE) ]

\* resolveDeviceFlowConfig without the built-in defaults
resolveDeviceFlowConfigNoDefault(credentialData) ==
    [ clientId |->
        OrElse(OrElse(credentialData.deviceFlowClientId,
                      credentialData.clientId),
               env.GITHUB_DEVICE_FLOW_CLIENT_ID),
      scope |->
        OrElse(OrElse(credentialData.deviceFlowScope,
                      credentialData.scope),
               env.GITHUB_DEVICE_FLOW_SCOPE) ]

\* resolveDeviceFlowConfig: the client id and the scope of the device flow
resolveDeviceFlowConfig(credentialData) ==
    [ clientId |->
        OrElse(OrElse(OrElse(credentialData.deviceFlowClientId,
                             credentialData.clientId),
                      env.GITHUB_DEVICE_FLOW_CLIENT_ID),
               DEFAULT_GITHUB_DEVICE_FLOW_CLIENT_ID),
      scope |->
        OrElse(OrElse(OrElse(credentialData.deviceFlowScope,
                             credentialData.scope),
                      env.GITHUB_DEVICE_FLOW_SCOPE),
               DEFAULT_GITHUB_DEVICE_FLOW_SCOPE) ]

\* res.status(code).json({ success: false, message })
Refuse(code, message) ==
    [NoResponse EXCEPT !.code = code, !.success = FALSE, !.message = message]

\* next(new InternalFlowiseError(INTERNAL_SERVER_ERROR, prefix + error.message))
InternalError(prefix, cause) ==
    [NoResponse EXCEPT !.code = 500, !.message = prefix, !.cause = cause]

\* StartDeviceFlowBegin without the 404: a credential that is not found is read
\* as an empty bag
StartDeviceFlowBeginNoLookup(c, credentialId) ==
    /\ calls[c].pc = "idle"
    /\ LET call == [Idle EXCEPT !.op = "startDeviceFlow", !.key = credentialId,
                                !.repoReads = 1]
           cfg  == resolveDeviceFlowConfig(IF Found(credentialId) THEN creds[credentialId]
                                                                  ELSE EmptyBag)
       IN  calls' = [calls EXCEPT ![c] =
             IF ~Truthy(cfg.clientId)
                 THEN [call EXCEPT !.pc = "done",
                                   !.response =
                                       Refuse(400, "Missing GitHub device flow client ID")]
             ELSE [call EXCEPT !.pc = "awaitDeviceCode",
                               !.request = [NoRequest EXCEPT !.url = "DEVICE_CODE_URL",
                                                             !.client_id = cfg.clientId,
                                                             !.scope = cfg.scope],
                               !.upstream.deviceCode = 1]]
    /\ UNCHANGED <<now, env, creds, copilotTokenCache, flow, copilotModelCache>>

\* POST /device/:credentialId up to its axios.post
StartDeviceFlowBegin(c, credentialId) ==
    /\ calls[c].pc = "idle"
    /\ LET call == [Idle EXCEPT !.op = "startDeviceFlow", !.key = credentialId,
                                !.repoReads = 1]
           cfg  == resolveDeviceFlowConfig(creds[credentialId])
       IN  calls' = [calls EXCEPT ![c] =
             IF ~Found(credentialId)
                 THEN [call EXCEPT !.pc = "done",
                                   !.response = Refuse(404, "Credential not found")]
             ELSE IF ~Truthy(cfg.clientId)
                 THEN [call EXCEPT !.pc = "done",
                                   !.response =
                                       Refuse(400, "Missing GitHub device flow client ID")]
             ELSE [call EXCEPT !.pc = "awaitDeviceCode",
                               !.request = [NoRequest EXCEPT !.url = "DEVICE_CODE_URL",
                                                             !.client_id = cfg.clientId,
                                                             !.scope = cfg.scope],
                               !.upstream.deviceCode = 1]]
    /\ UNCHANGED <<now, env, creds, copilotTokenCache, flow, copilotModelCache>>

\* POST /device/:credentialId after its axios.post: the answer, or the catch
StartDeviceFlowEnd(c, resp) ==
    /\ calls[c].pc = "awaitDeviceCode"
    /\ calls' = [calls EXCEPT ![c].pc = "done", ![c].request = NoRequest,
                              ![c].received = resp,
                              ![c].response =
                   IF resp.ok
                       THEN [NoResponse EXCEPT !.code = 200, !.success = TRUE,
                                               !.credentialId = calls[c].key,
                                               !.data = resp.data]
                       ELSE InternalError("GitHub device flow init error: ", resp.message)]
    /\ UNCHANGED <<now, env, creds, copilotTokenCache, flow, copilotModelCache>>

\* req.body?.deviceCode || req.body?.device_code
BodyDeviceCode(body) == OrElse(body.deviceCode, body.device_code)

\* PollDeviceFlowBegin with its first two checks in the other order: the
\* credential is looked up before the deviceCode is looked at
PollDeviceFlowBeginCredentialFirst(c, credentialId, body) ==
    /\ calls[c].pc = "idle"
    /\ LET deviceCode == BodyDeviceCode(body)
           call == [Idle EXCEPT !.op = "pollDeviceFlow", !.key = credentialId,
                                !.deviceCode = deviceCode, !.repoReads = 1]
           cfg  == resolveDeviceFlowConfig(creds[credentialId])
       IN  calls' = [calls EXCEPT ![c] =
             IF ~Found(credentialId)
                 THEN [call EXCEPT !.pc = "done",
                                   !.response = Refuse(404, "Credential not found")]
             ELSE IF ~Truthy(deviceCode)
                 THEN [call EXCEPT !.pc = "done",
                                   !.response =
                                       Refuse(400, "Missing deviceCode in request body")]
             ELSE IF ~Truthy(cfg.clientId)
                 THEN [call EXCEPT !.pc = "done",
                                   !.response =
                                       Refuse(400, "Missing GitHub device flow client ID")]
             ELSE [call EXCEPT !.pc = "awaitAccessToken",
                               !.decryptedData = creds[credentialId],
                               !.request = [NoRequest EXCEPT !.url = "ACCESS_TOKEN_URL",
                                                             !.client_id = cfg.clientId,
                                                             !.device_code = deviceCode],
                               !.upstream.accessToken = 1]]
    /\ UNCHANGED <<now, env, creds, copilotTokenCache, flow, copilotModelCache>>

\* PollDeviceFlowBegin that gives a flow up by itself: two ticks after the
\* process started it answers 400 without asking the access-token endpoint
PollDeviceFlowBeginTimingOut(c, credentialId, body) ==
    /\ calls[c].pc = "idle"
    /\ LET deviceCode == BodyDeviceCode(body)
           call == [Idle EXCEPT !.op = "pollDeviceFlow", !.key = credentialId,
                                !.deviceCode = deviceCode]
           cfg  == resolveDeviceFlowConfig(creds[credentialId])
       IN  calls' = [calls EXCEPT ![c] =
             IF ~Truthy(deviceCode)
                 THEN [call EXCEPT !.pc = "done",
                                   !.response =
                                       Refuse(400, "Missing deviceCode in request body")]
             ELSE IF ~Found(credentialId)
                 THEN [call EXCEPT !.pc = "done", !.repoReads = 1,
                                   !.response = Refuse(404, "Credential not found")]
             ELSE IF now.k >= StartTime.k + 2 * TickSeconds
                 THEN [call EXCEPT !.pc = "done", !.repoReads = 1,
                                   !.response = Refuse(400, "Device flow expired")]
             ELSE [call EXCEPT !.pc = "awaitAccessToken", !.repoReads = 1,
                               !.decryptedData = creds[credentialId],
                               !.request = [NoRequest EXCEPT !.url = "ACCESS_TOKEN_URL",
                                                             !.client_id = cfg.clientId,
                                                             !.device_code = deviceCode],
                               !.upstream.accessToken = 1]]
    /\ UNCHANGED <<now, env, creds, copilotTokenCache, flow, copilotModelCache>>

\* POST /device/poll/:credentialId up to its axios.post
PollDeviceFlowBegin(c, credentialId, body) ==
    /\ calls[c].pc = "idle"
    /\ LET deviceCode == BodyDeviceCode(body)
           call == [Idle EXCEPT !.op = "pollDeviceFlow", !.key = credentialId,
                                !.deviceCode = deviceCode]
           cfg  == resolveDeviceFlowConfig(creds[credentialId])
       IN  calls' = [calls EXCEPT ![c] =
             IF ~Truthy(deviceCode)
                 THEN [call EXCEPT !.pc = "done",
                                   !.response =
                                       Refuse(400, "Missing deviceCode in request body")]
             ELSE IF ~Found(credentialId)
                 THEN [call EXCEPT !.pc = "done", !.repoReads = 1,
                                   !.response = Refuse(404, "Credential not found")]
             ELSE IF ~Truthy(cfg.clientId)
                 THEN [call EXCEPT !.pc = "done", !.repoReads = 1,
                                   !.response =
                                       Refuse(400, "Missing GitHub device flow client ID")]
             ELSE [call EXCEPT !.pc = "awaitAccessToken", !.repoReads = 1,
                               !.decryptedData = creds[credentialId],
                               !.request = [NoRequest EXCEPT !.url = "ACCESS_TOKEN_URL",
                                                             !.client_id = cfg.clientId,
                                                             !.device_code = deviceCode],
                               !.upstream.accessToken = 1]]
    /\ UNCHANGED <<now, env, creds, copilotTokenCache, flow, copilotModelCache>>

\* updatedCredentialData without the spread of decryptedData
updatedCredentialDataTokenOnly(decryptedData, tokenData, nowMs) ==
    [EmptyBag EXCEPT !.githubAccessToken     = tokenData.access_token,
                     !.githubTokenType       = tokenData.token_type,
                     !.githubTokenScope      = tokenData.scope,
                     !.githubTokenReceivedAt = nowMs]

\* updatedCredentialData that writes the token's type, scope and time and leaves
\* githubAccessToken, the attribute the chat model reads, as it was
updatedCredentialDataNoAccessToken(decryptedData, tokenData, nowMs) ==
    [decryptedData EXCEPT !.githubTokenType       = tokenData.token_type,
                          !.githubTokenScope      = tokenData.scope,
                          !.githubTokenReceivedAt = nowMs]

\* updatedCredentialData: the bag read before the await, with the four token
\* attributes of this response
updatedCredentialData(decryptedData, tokenData, nowMs) ==
    [decryptedData EXCEPT !.githubAccessToken     = tokenData.access_token,
                          !.githubTokenType       = tokenData.token_type,
                          !.githubTokenScope      = tokenData.scope,
                          !.githubTokenReceivedAt = nowMs]

\* PollRefusal that knows authorization_pending only: slow_down ends the flow
PollRefusalSlowDownEnds(tokenData) ==
    IF tokenData.error = "authorization_pending"
        THEN [NoResponse EXCEPT !.code = 200, !.success = FALSE,
                                !.status = tokenData.error,
                                !.error_description = tokenData.error_description]
        ELSE [NoResponse EXCEPT !.code = 400, !.success = FALSE,
                                !.status = OrElse(tokenData.error, "unknown_error"),
                                !.message = OrElse(tokenData.error_description,
                                                   "Device flow failed")]

\* PollRefusal without the fallback of the status
PollRefusalNoFallback(tokenData) ==
    IF tokenData.error = "authorization_pending" \/ tokenData.error = "slow_down"
        THEN [NoResponse EXCEPT !.code = 200, !.success = FALSE,
                                !.status = tokenData.error,
                                !.error_description = tokenData.error_description]
        ELSE [NoResponse EXCEPT !.code = 400, !.success = FALSE,
                                !.status = tokenData.error,
                                !.message = OrElse(tokenData.error_description,
                                                   "Device flow failed")]

\* PollRefusal that takes access_denied for one more "still pending"
PollRefusalDeniedIsPending(tokenData) ==
    IF tokenData.error \in {"authorization_pending", "slow_down", "access_denied"}
        THEN [NoResponse EXCEPT !.code = 200, !.success = FALSE,
                                !.status = tokenData.error,
                                !.error_description = tokenData.error_description]
        ELSE [NoResponse EXCEPT !.code = 400, !.success = FALSE,
                                !.status = OrElse(tokenData.error, "unknown_error"),
                                !.message = OrElse(tokenData.error_description,
                                                   "Device flow failed")]

\* the answer to a token endpoint response that carries no access_token
PollRefusal(tokenData) ==
    IF tokenData.error = "authorization_pending" \/ tokenData.error = "slow_down"
        THEN [NoResponse EXCEPT !.code = 200, !.success = FALSE,
                                !.status = tokenData.error,
                                !.error_description = tokenData.error_description]
        ELSE [NoResponse EXCEPT !.code = 400, !.success = FALSE,
                                !.status = OrElse(tokenData.error, "unknown_error"),
                                !.message = OrElse(tokenData.error_description,
                                                   "Device flow failed")]

\* PollDeviceFlowEnd that polls on by itself: on authorization_pending or
\* slow_down it sends the access-token request again and waits for the answer
PollDeviceFlowEndPollingOn(c, resp) ==
    /\ calls[c].pc = "awaitAccessToken"
    /\ IF ~resp.ok
         THEN /\ calls' = [calls EXCEPT ![c].pc = "done", ![c].request = NoRequest,
                                        ![c].decryptedData = EmptyBag,
                                        ![c].received = resp,
                                        ![c].response =
                              InternalError("GitHub device flow polling error: ",
                                            resp.message)]
              /\ UNCHANGED creds
         ELSE IF Truthy(resp.tokenData.access_token)
         THEN /\ creds' = [creds EXCEPT ![calls[c].key] =
                              updatedCredentialData(calls[c].decryptedData, resp.tokenData, now)]
              /\ calls' = [calls EXCEPT ![c].pc = "done", ![c].request = NoRequest,
                                        ![c].decryptedData = EmptyBag,
                                        ![c].received = resp,
                                        ![c].repoWrites = 1,
                                        ![c].response =
                              [NoResponse EXCEPT !.code = 200, !.success = TRUE,
                                                 !.status = "authorized",
                                                 !.credentialId = calls[c].key]]
         ELSE IF resp.tokenData.error = "authorization_pending"
                   \/ resp.tokenData.error = "slow_down"
         THEN /\ calls' = [calls EXCEPT ![c].received = resp,
                                        ![c].upstream.accessToken = 2]
              /\ UNCHANGED creds
         ELSE /\ calls' = [calls EXCEPT ![c].pc = "done", ![c].request = NoRequest,
                                        ![c].decryptedData = EmptyBag,
                                        ![c].received = resp,
                                        ![c].response = PollRefusal(resp.tokenData)]
              /\ UNCHANGED creds
    /\ UNCHANGED <<now, env, copilotTokenCache, flow, copilotModelCache>>

\* PollDeviceFlowEnd that drops the credential's cached Copilot token when it
\* stores a new access token
PollDeviceFlowEndInvalidating(c, resp) ==
    /\ calls[c].pc = "awaitAccessToken"
    /\ IF ~resp.ok
         THEN /\ calls' = [calls EXCEPT ![c].pc = "done", ![c].request = NoRequest,
                                        ![c].decryptedData = EmptyBag,
                                        ![c].received = resp,
                                        ![c].response =
                              InternalError("GitHub device flow polling error: ",
                                            resp.message)]
              /\ UNCHANGED <<creds, copilotTokenCache>>
         ELSE IF Truthy(resp.tokenData.access_token)
         THEN /\ creds' = [creds EXCEPT ![calls[c].key] =
                              updatedCredentialData(calls[c].decryptedData, resp.tokenData, now)]
              /\ copilotTokenCache' = [copilotTokenCache EXCEPT ![calls[c].key] = NoEntry]
              /\ calls' = [calls EXCEPT ![c].pc = "done", ![c].request = NoRequest,
                                        ![c].decryptedData = EmptyBag,
                                        ![c].received = resp,
                                        ![c].repoWrites = 1,
                                        ![c].response =
                              [NoResponse EXCEPT !.code = 200, !.success = TRUE,
                                                 !.status = "authorized",
                                                 !.credentialId = calls[c].key]]
         ELSE /\ calls' = [calls EXCEPT ![c].pc = "done", ![c].request = NoRequest,
                                        ![c].decryptedData = EmptyBag,
                                        ![c].received = resp,
                                        ![c].response = PollRefusal(resp.tokenData)]
              /\ UNCHANGED <<creds, copilotTokenCache>>
    /\ UNCHANGED <<now, env, flow, copilotModelCache>>

\* PollDeviceFlowEnd that reads the credential again before it writes
PollDeviceFlowEndRereading(c, resp) ==
    /\ calls[c].pc = "awaitAccessToken"
    /\ IF ~resp.ok
         THEN /\ calls' = [calls EXCEPT ![c].pc = "done", ![c].request = NoRequest,
                                        ![c].decryptedData = EmptyBag,
                                        ![c].received = resp,
                                        ![c].response =
                              InternalError("GitHub device flow polling error: ",
                                            resp.message)]
              /\ UNCHANGED creds
         ELSE IF Truthy(resp.tokenData.access_token)
         THEN /\ creds' = [creds EXCEPT ![calls[c].key] =
                              updatedCredentialData(creds[calls[c].key], resp.tokenData, now)]
              /\ calls' = [calls EXCEPT ![c].pc = "done", ![c].request = NoRequest,
                                        ![c].decryptedData = EmptyBag,
                                        ![c].received = resp,
                                        ![c].repoWrites = 1,
                                        ![c].response =
                              [NoResponse EXCEPT !.code = 200, !.success = TRUE,
                                                 !.status = "authorized",
                                                 !.credentialId = calls[c].key]]
         ELSE /\ calls' = [calls EXCEPT ![c].pc = "done", ![c].request = NoRequest,
                                        ![c].decryptedData = EmptyBag,
                                        ![c].received = resp,
                                        ![c].response = PollRefusal(resp.tokenData)]
              /\ UNCHANGED creds
    /\ UNCHANGED <<now, env, copilotTokenCache, flow, copilotModelCache>>

\* POST /device/poll/:credentialId after its axios.post.  encryptCredentialData
\* and credentialRepository.update are awaited one after the other and read no
\* shared state: the update is taken in the same step as the response.
PollDeviceFlowEnd(c, resp) ==
    /\ calls[c].pc = "awaitAccessToken"
    /\ IF ~resp.ok
         THEN /\ calls' = [calls EXCEPT ![c].pc = "done", ![c].request = NoRequest,
                                        ![c].decryptedData = EmptyBag,
                                        ![c].received = resp,
                                        ![c].response =
                              InternalError("GitHub device flow polling error: ",
                                            resp.message)]
              /\ UNCHANGED creds
         ELSE IF Truthy(resp.tokenData.access_token)
         THEN /\ creds' = [creds EXCEPT ![calls[c].key] =
                              updatedCredentialData(calls[c].decryptedData, resp.tokenData, now)]
              /\ calls' = [calls EXCEPT ![c].pc = "done", ![c].request = NoRequest,
                                        ![c].decryptedData = EmptyBag,
                                        ![c].received = resp,
                                        ![c].repoWrites = 1,
                                        ![c].response =
                              [NoResponse EXCEPT !.code = 200, !.success = TRUE,
                                                 !.status = "authorized",
                                                 !.credentialId = calls[c].key]]
         ELSE /\ calls' = [calls EXCEPT ![c].pc = "done", ![c].request = NoRequest,
                                        ![c].decryptedData = EmptyBag,
                                        ![c].received = resp,
                                        ![c].response = PollRefusal(resp.tokenData)]
              /\ UNCHANGED creds
    /\ UNCHANGED <<now, env, copilotTokenCache, flow, copilotModelCache>>

\* The credential dialog saves a credential: the platform's credential update
\* stores the client id typed into the form, and keeps the other attributes.
SaveCredential(c, credentialId, clientId) ==
    /\ calls[c].pc = "idle"
    /\ Found(credentialId)
    /\ creds' = [creds EXCEPT ![credentialId].clientId = clientId]
    /\ calls' = [calls EXCEPT ![c] =
                    [Idle EXCEPT !.op = "saveCredential", !.pc = "done", !.key = credentialId,
                                 !.repoReads = 1, !.repoWrites = 1]]
    /\ UNCHANGED <<now, env, copilotTokenCache, flow, copilotModelCache>>

-----------------------------------------------------------------------------
(* The caller of the device flow: it starts the flow for a credential, then    *)
(* polls with the device_code it was given, one request at a time, until an    *)
(* answer that is not "still pending".  ui/src/api/githubCopilot.js posts the   *)
(* two requests; a 2xx answer resolves with the body, any other rejects.        *)

FlowCredential == "cred-1"

CallerIdle == \A c \in Slots : calls[c].pc = "idle"

\* where the flow stands once the caller has the answer of its call
FlowAfter(f, call) ==
    IF call.op = "startDeviceFlow"
        THEN IF call.response.code = 200
                 THEN [f EXCEPT !.state = "PENDING",
                                !.deviceCode = call.response.data.device_code]
                 ELSE f
    ELSE IF call.op = "pollDeviceFlow"
        THEN LET polled == [f EXCEPT !.polls = IF @ < MaxPolls THEN @ + 1 ELSE @]
             IN  IF call.response.code # 200
                     THEN [polled EXCEPT !.state = "DENIED/EXPIRED"]
                 ELSE IF call.response.status = "authorized"
                     THEN [polled EXCEPT !.state = "AUTHORIZED"]
                 ELSE polled
    ELSE f

CallerStarts(c) ==
    /\ flow.state = "NOT_STARTED"
    /\ CallerIdle
    /\ StartDeviceFlowBegin(c, FlowCredential)

CallerPolls(c) ==
    /\ flow.state = "PENDING"
    /\ CallerIdle
    /\ PollDeviceFlowBegin(c, FlowCredential,
                           [deviceCode |-> flow.deviceCode, device_code |-> Undef])

CallerTakes(c) ==
    /\ calls[c].pc = "done"
    /\ flow' = FlowAfter(flow, calls[c])
    /\ calls' = [calls EXCEPT ![c] = Idle]
    /\ UNCHANGED <<now, env, creds, copilotTokenCache, copilotModelCache>>

-----------------------------------------------------------------------------
(* The inputs of the device flow *)

\* the credentials of the repository; requests name cred-1, or an id the
\* repository does not hold
CredentialIds == {"cred-1", "cred-2"}
RequestIds == {"cred-1", "cred-404"}

NoEnv == [GITHUB_DEVICE_FLOW_CLIENT_ID |-> Undef, GITHUB_DEVICE_FLOW_SCOPE |-> Undef]
Envs ==
    { NoEnv,
      [GITHUB_DEVICE_FLOW_CLIENT_ID |-> "env-client", GITHUB_DEVICE_FLOW_SCOPE |-> "env scope"] }

\* a credential that overrides client id and scope and already holds tokens
OverridingBag ==
    [EmptyBag EXCEPT !.deviceFlowClientId = "",
                     !.clientId = "cred-client",
                     !.deviceFlowScope = "cred scope",
                     !.githubAccessToken = "gho_old",
                     !.githubTokenType = "bearer",
                     !.githubTokenScope = "read:user",
                     !.copilotToken = "cop-S",
                     !.copilotTokenExpiresAt = NumPlus(StartSeconds, 450)]

\* every environment and every bag of overrides: each value absent, empty or set
AllEnvs ==
    [ GITHUB_DEVICE_FLOW_CLIENT_ID : {Undef, "", "env-client"},
      GITHUB_DEVICE_FLOW_SCOPE     : {Undef, "", "env scope"} ]
ConfigBags ==
    { [EmptyBag EXCEPT !.deviceFlowClientId = a, !.clientId = b,
                       !.deviceFlowScope = x, !.scope = y] :
        a \in {Undef, "", "cred-df-client"}, b \in {Undef, "", "cred-client"},
        x \in {Undef, "", "cred df scope"},  y \in {Undef, "", "cred scope"} }

\* the request bodies of a poll
Bodies ==
    { [deviceCode |-> Undef,  device_code |-> Undef],
      [deviceCode |-> "",     device_code |-> Undef],
      [deviceCode |-> "",     device_code |-> ""],
      [deviceCode |-> "dc-1", device_code |-> Undef],
      [deviceCode |-> Undef,  device_code |-> "dc-1"],
      [deviceCode |-> "dc-1", device_code |-> "dc-2"] }

DeviceCodeResponses ==
    { DeviceCodeOk([device_code |-> "dc-1", user_code |-> "WDJB-MJHT"]),
      UpstreamStatus("503", "Service Unavailable"),
      UpstreamUnreachable("getaddrinfo ENOTFOUND github.com") }

TokenResponses ==
    { AccessTokenOk(t) : t \in
        { TokenData("gho_A", "bearer", "read:user", Undef, Undef),
          TokenData("gho_B", Undef, Undef, Undef, Undef),
          TokenData("gho_A", "bearer", "read:user", "authorization_pending", Undef),
          TokenData(Undef, Undef, Undef, "authorization_pending", "waiting for the user"),
          TokenData(Undef, Undef, Undef, "slow_down", Undef),
          TokenData(Undef, Undef, Undef, "access_denied", "the user denied the request"),
          TokenData(Undef, Undef, Undef, "expired_token", Undef),
          TokenData("", Undef, Undef, Undef, Undef),
          NoTokenData } }
    \cup { UpstreamStatus("503", "Service Unavailable"),
           UpstreamUnreachable("getaddrinfo ENOTFOUND github.com") }

-----------------------------------------------------------------------------
(* The inputs of the token cache *)

\* an expiry s seconds after StartTime, given in seconds
InSeconds(s) == NumPlus(StartSeconds, s)
\* an expiry s seconds and ms milliseconds after StartTime, given in milliseconds
InMillis(s, ms) == Num(StartTime.k + s, ms)

GithubAccessTokens == {"gho_A", "gho_B"}

WithCopilotToken(token, expiresAt) ==
    [EmptyBag EXCEPT !.githubAccessToken = "gho_A",
                     !.copilotToken = token, !.copilotTokenExpiresAt = expiresAt]

\* the credentialData getCopilotToken is called with: no Copilot token, one that
\* expires in seconds or in milliseconds, at the refresh buffer, at and right
\* after the 10^12 threshold, and the falsy values of either attribute
Snapshots ==
    { EmptyBag,
      WithCopilotToken("cop-S", InSeconds(450)),
      WithCopilotToken("cop-S", InMillis(600, 7)),
      WithCopilotToken("cop-S", InSeconds(300)),
      WithCopilotToken("cop-S", MS_THRESHOLD),
      WithCopilotToken("cop-S", NumPlus(MS_THRESHOLD, 1)),
      WithCopilotToken("cop-S", Zero),
      WithCopilotToken("cop-S", NoNumber),
      WithCopilotToken("", InSeconds(450)),
      WithCopilotToken(Undef, InSeconds(450)) }

\* What fetch gives: a response (ok for a 2xx status) with what response.json()
\* or response.text() reads from it, or a rejection with its message in body.
ExchangeOk(token, expires_at) ==
    [ok |-> TRUE, rejected |-> FALSE, status |-> "200", statusText |-> "OK", body |-> Undef,
     token |-> token, expires_at |-> expires_at]
ExchangeFailed(status, statusText, body) ==
    [ok |-> FALSE, rejected |-> FALSE, status |-> status, statusText |-> statusText,
     body |-> body, token |-> Undef, expires_at |-> NoNumber]
ExchangeRejected(message) ==
    [ok |-> FALSE, rejected |-> TRUE, status |-> Undef, statusText |-> Undef,
     body |-> message, token |-> Undef, expires_at |-> NoNumber]

\* what the exchange endpoint may answer; cop-2 is never issued with the expiry
\* InSeconds(300) or InMillis(600, 7) that cop-1 is issued with
ExchangeResponses ==
    { ExchangeOk("cop-1", InSeconds(300)),
      ExchangeOk("cop-1", InSeconds(450)),
      ExchangeOk("cop-1", InMillis(600, 7)),
      ExchangeOk("cop-2", InSeconds(450)),
      ExchangeOk("cop-2", NumPlus(MS_THRESHOLD, 1)),
      ExchangeFailed("401", "Unauthorized", "Bad credentials"),
      ExchangeFailed("403", "Forbidden", "API rate limit exceeded"),
      ExchangeRejected("request to COPILOT_TOKEN_URL failed, reason: ECONNRESET") }

-----------------------------------------------------------------------------
(* The inputs of the chat model node *)

\* an access token pasted into the node's inputs; a node without a credential
\* id is keyed by it
PastedToken == "gho_N"
NodeCacheKeys == CacheKeys \cup {PastedToken}

\* a credential that holds a GitHub token and no Copilot token
TokenBag == [EmptyBag EXCEPT !.githubAccessToken = "gho_A"]

ProxyBasePath == <<" ", "https://proxy.example", "/", "/">>
OrgHeaders == [k \in {"X-Org", "X-Team"} |-> IF k = "X-Org" THEN "acme" ELSE "core"]

\* the nodes init is called for: with and without a credential id, with and
\* without a token in the inputs
InitNodes ==
    { NodeData(cr, Undef, t) : cr \in {Undef, "", "cred-1", "cred-2"}, t \in {Undef, "", PastedToken} }

\* the nodes listModels is called for
ListNodes ==
    { NodeData(Undef, Undef, Undef),
      NodeData(Undef, Undef, PastedToken),
      NodeData("cred-1", Undef, Undef),
      NodeData("cred-2", "cred-1", Undef),
      NodeData("cred-1", Undef, ""),
      [NodeData("cred-1", Undef, Undef) EXCEPT !.inputs.basepath = <<" ">>],
      [NodeData("cred-1", Undef, Undef) EXCEPT
            !.inputs.basepath = ProxyBasePath,
            !.inputs.baseOptions = BaseOptions("object", OrgHeaders)],
      [NodeData("cred-1", Undef, Undef) EXCEPT
            !.inputs.baseOptions = BaseOptions("string", <<>>)] }

\* the keys of the model cache
ModelCacheKeys ==
    { buildModelCacheKey(k, b, h) :
        k \in CredentialIds,
        b \in {DEFAULT_BASE_URL, normalizeBaseUrl(ProxyBasePath)},
        h \in { parseAdditionalHeaders(NoBaseOptions),
                parseAdditionalHeaders(BaseOptions("object", OrgHeaders)) } }

NoModels == [k \in ModelCacheKeys |-> NoModelEntry]

\* what the model list endpoint may answer
ModelResponses ==
    { ModelsOk(Payload(NotArray,
                       Array(<< ItemObject(<<"gpt-4o">>, UndefText, UndefText, UndefText,
                                           UndefText, <<"GPT-4o">>, UndefText),
                                ItemString(<<" ", "o3-mini">>) >>),
                       NotArray, NotArray)),
      ModelsOk(Payload(Array(<< ItemNull, ItemString(<<" ">>) >>), NotArray, NotArray, NotArray)),
      ModelsFailed("401", "Unauthorized", "token expired"),
      ModelsRejected("request to COPILOT_MODEL_LIST_PATH failed, reason: ECONNRESET") }

\* Arrays the model list endpoint may send: an empty one; one whose elements
\* yield no model (null, a number, empty and blank strings, an object without a
\* name, an object whose id is the empty string); one with names to trim, names
\* that repeat, and names under id, name, model and slug; one with two of the
\* same names in another order.
EmptyArray == Array(<<>>)
BlankArray ==
    Array(<< ItemNull, ItemNumber, ItemString(<<>>), ItemString(<<" ", " ">>),
             ItemObject(UndefText, UndefText, UndefText, UndefText, <<"none">>, UndefText, UndefText),
             ItemObject(<<>>, <<"gpt-4o">>, UndefText, UndefText, UndefText, UndefText, UndefText) >>)
MixedArray ==
    Array(<< ItemString(<<" ", "o3-mini">>),
             ItemObject(<<"gpt-4o">>, <<"other">>, UndefText, UndefText,
                        UndefText, <<"GPT-4o">>, UndefText),
             ItemNull,
             ItemString(<<"o3-mini", " ">>),
             ItemObject(UndefText, <<"gpt-4o", " ">>, UndefText, UndefText,
                        <<"again">>, UndefText, UndefText),
             ItemObject(UndefText, UndefText, <<" ", "claude-sonnet-4">>, UndefText,
                        <<" ">>, UndefText, UndefText),
             ItemObject(UndefText, UndefText, UndefText, <<"gemini-2.5-pro">>,
                        UndefText, UndefText, <<"Gemini">>) >>)
PlainArray == Array(<< ItemString(<<"gpt-4o">>), ItemString(<<"o3-mini">>) >>)
Arrays == {EmptyArray, BlankArray, MixedArray, PlainArray}

\* the payloads: an array, or an object with any of data, models and items
Payloads ==
    { Payload(a, NotArray, NotArray, NotArray) : a \in Arrays }
    \cup { Payload(NotArray, dt, md, it) : dt, md, it \in Arrays \cup {NotArray} }

-----------------------------------------------------------------------------
(* Specifications *)

\* The process has started: both caches empty, no request in flight.  The
\* repository holds cred-1, fresh from the credential dialog or already set up,
\* and cred-2.
Init ==
    /\ now = StartTime
    /\ env \in Envs
    /\ creds \in { [id \in CredentialIds |-> IF id = "cred-1" THEN b ELSE OverridingBag] :
                      b \in {EmptyBag, OverridingBag} }
    /\ copilotTokenCache = [k \in CacheKeys |-> NoEntry]
    /\ calls = [c \in Slots |-> Idle]
    /\ flow = NoFlow
    /\ copilotModelCache = NoModels

\* The token cache reads neither the repository nor the environment.
InitToken ==
    /\ now = StartTime
    /\ env = NoEnv
    /\ creds = [id \in CredentialIds |-> EmptyBag]
    /\ copilotTokenCache = [k \in CacheKeys |-> NoEntry]
    /\ calls = [c \in Slots |-> Idle]
    /\ flow = NoFlow
    /\ copilotModelCache = NoModels

NextToken ==
    \/ \E c \in Slots, cacheKey \in CacheKeys, t \in GithubAccessTokens, d \in Snapshots :
            GetCopilotTokenBegin(c, cacheKey, t, d)
    \/ \E c \in Slots, resp \in ExchangeResponses : GetCopilotTokenEnd(c, resp)
    \/ \E c \in Slots : Return(c)
    \/ Tick

SpecToken == InitToken /\ [][NextToken]_vars

\* The chat model node on stored credentials: cred-1 holds any of the snapshots,
\* cred-2 a GitHub token and a Copilot token, and the nodes of both are
\* initialised again and again.
InitChatModel ==
    /\ now = StartTime
    /\ env = NoEnv
    /\ creds \in { [id \in CredentialIds |-> IF id = "cred-1" THEN b ELSE OverridingBag] :
                      b \in Snapshots }
    /\ copilotTokenCache = [k \in CacheKeys |-> NoEntry]
    /\ calls = [c \in Slots |-> Idle]
    /\ flow = NoFlow
    /\ copilotModelCache = NoModels

NextChatModel ==
    \/ \E c \in Slots, id \in CredentialIds :
            ChatGitHubCopilot_init(c, NodeData(id, Undef, Undef))
    \/ \E c \in Slots, resp \in ExchangeResponses : GetCopilotTokenEnd(c, resp)
    \/ \E c \in Slots : Return(c)
    \/ Tick

SpecChatModel == InitChatModel /\ [][NextChatModel]_vars

\* End to end: cred-1 has just been created and holds no token; the dialog runs
\* the device flow for it while the chat model nodes that use cred-1 and cred-2
\* are initialised.
EndToEndBody == [deviceCode |-> "dc-1", device_code |-> Undef]
EndToEndExchangeResponses ==
    { ExchangeOk("cop-1", InSeconds(450)),
      ExchangeFailed("401", "Unauthorized", "Bad credentials"),
      ExchangeRejected("request to COPILOT_TOKEN_URL failed, reason: ECONNRESET") }

InitEndToEnd ==
    /\ now = StartTime
    /\ env = NoEnv
    /\ creds = [id \in CredentialIds |-> IF id = "cred-1" THEN EmptyBag ELSE OverridingBag]
    /\ copilotTokenCache = [k \in CacheKeys |-> NoEntry]
    /\ calls = [c \in Slots |-> Idle]
    /\ flow = NoFlow
    /\ copilotModelCache = NoModels

NextEndToEnd ==
    \/ \E c \in Slots : StartDeviceFlowBegin(c, "cred-1")
    \/ \E c \in Slots, resp \in DeviceCodeResponses : StartDeviceFlowEnd(c, resp)
    \/ \E c \in Slots : PollDeviceFlowBegin(c, "cred-1", EndToEndBody)
    \/ \E c \in Slots, resp \in TokenResponses : PollDeviceFlowEnd(c, resp)
    \/ \E c \in Slots, id \in CredentialIds :
            ChatGitHubCopilot_init(c, NodeData(id, Undef, Undef))
    \/ \E c \in Slots, resp \in EndToEndExchangeResponses : GetCopilotTokenEnd(c, resp)
    \/ \E c \in Slots : Return(c)
    \/ Tick

SpecEndToEnd == InitEndToEnd /\ [][NextEndToEnd]_vars

\* The chat model node: time passes LongTickSeconds at a time, long enough for
\* an entry of the model cache to expire.
LongTick ==
    /\ now.k < StartTime.k + MaxLongTicks * LongTickSeconds
    /\ now' = Num(now.k + LongTickSeconds, now.u)
    /\ UNCHANGED <<env, creds, copilotTokenCache, calls, flow, copilotModelCache>>

NodeExchangeResponses ==
    { ExchangeOk("cop-1", InSeconds(1000)),
      ExchangeFailed("401", "Unauthorized", "Bad credentials") }

\* The nodes' init: cred-1 holds no token, an empty one, a GitHub token, or a
\* GitHub token and a Copilot token; cred-2 holds both.  Nodes with and without
\* a credential id are initialised again and again.
InitNode ==
    /\ now = StartTime
    /\ env = NoEnv
    /\ creds \in { [id \in CredentialIds |-> IF id = "cred-1" THEN b ELSE OverridingBag] :
                      b \in {EmptyBag, [EmptyBag EXCEPT !.githubAccessToken = ""], TokenBag,
                             WithCopilotToken("cop-S", InSeconds(450))} }
    /\ copilotTokenCache = [k \in NodeCacheKeys |-> NoEntry]
    /\ calls = [c \in Slots |-> Idle]
    /\ flow = NoFlow
    /\ copilotModelCache = NoModels

NextNode ==
    \/ \E c \in Slots, nodeData \in InitNodes : ChatGitHubCopilot_init(c, nodeData)
    \/ \E c \in Slots, resp \in NodeExchangeResponses : GetCopilotTokenEnd(c, resp)
    \/ \E c \in Slots : Return(c)
    \/ LongTick

SpecNode == InitNode /\ [][NextNode]_vars

\* The nodes' listModels: cred-1 holds no token, a GitHub token, or a GitHub
\* token and a Copilot token; cred-2 holds both.  The models of nodes with and
\* without a credential id, base path and headers are listed again and again.
InitList ==
    /\ now = StartTime
    /\ env = NoEnv
    /\ creds \in { [id \in CredentialIds |-> IF id = "cred-1" THEN b ELSE OverridingBag] :
                      b \in {EmptyBag, TokenBag, WithCopilotToken("cop-S", InSeconds(450))} }
    /\ copilotTokenCache = [k \in NodeCacheKeys |-> NoEntry]
    /\ calls = [c \in Slots |-> Idle]
    /\ flow = NoFlow
    /\ copilotModelCache = NoModels

NextList ==
    \/ \E c \in Slots, nodeData \in ListNodes : ListModelsBegin(c, nodeData)
    \/ \E c \in Slots, resp \in NodeExchangeResponses : ListModelsExchanged(c, resp)
    \/ \E c \in Slots, resp \in ModelResponses : ListModelsEnd(c, resp)
    \/ \E c \in Slots : Return(c)
    \/ LongTick

SpecList == InitList /\ [][NextList]_vars

\* normalizeCopilotModels on every payload: one listModels call after another
\* for the node of cred-1, which holds a GitHub token; the model list endpoint
\* answers with any of the payloads.
InitNormalize ==
    /\ now = StartTime
    /\ env = NoEnv
    /\ creds = [id \in CredentialIds |-> IF id = "cred-1" THEN TokenBag ELSE OverridingBag]
    /\ copilotTokenCache = [k \in NodeCacheKeys |-> NoEntry]
    /\ calls = [c \in Slots |-> Idle]
    /\ flow = NoFlow
    /\ copilotModelCache = NoModels

NextNormalize ==
    \/ ListModelsBegin("r1", NodeData("cred-1", Undef, Undef))
    \/ \E resp \in NodeExchangeResponses : ListModelsExchanged("r1", resp)
    \/ \E payload \in Payloads : ListModelsEnd("r1", ModelsOk(payload))
    \/ Return("r1")
    \/ LongTick

SpecNormalize == InitNormalize /\ [][NextNormalize]_vars

\* Polls of cred-1 racing each other and the credential dialog: two device
\* codes of cred-1 are polled while the form is saved with a client id.
RaceBodies == { [deviceCode |-> "dc-1", device_code |-> Undef],
                [deviceCode |-> "dc-2", device_code |-> Undef] }
RaceTokenResponses ==
    { AccessTokenOk(t) : t \in
        { TokenData("gho_A", "bearer", "read:user", Undef, Undef),
          TokenData("gho_B", "bearer", "repo", Undef, Undef),
          TokenData(Undef, Undef, Undef, "authorization_pending", Undef) } }
FormClientIds == {"form-client", ""}

InitRace ==
    /\ now = StartTime
    /\ env = NoEnv
    /\ creds = [id \in CredentialIds |-> IF id = "cred-1" THEN EmptyBag ELSE OverridingBag]
    /\ copilotTokenCache = [k \in CacheKeys |-> NoEntry]
    /\ calls = [c \in Slots |-> Idle]
    /\ flow = NoFlow
    /\ copilotModelCache = NoModels

NextRace ==
    \/ \E c \in Slots, body \in RaceBodies : PollDeviceFlowBegin(c, "cred-1", body)
    \/ \E c \in Slots, resp \in RaceTokenResponses : PollDeviceFlowEnd(c, resp)
    \/ \E c \in Slots, clientId \in FormClientIds : SaveCredential(c, "cred-1", clientId)
    \/ \E c \in Slots : Return(c)
    \/ Tick

SpecRace == InitRace /\ [][NextRace]_vars

\* A credential's access token is replaced while its chat model nodes are
\* initialised: cred-1 holds gho_A and is authorized again, with gho_B; the
\* exchange endpoint issues for each access token its own Copilot token, good
\* for RotationLifetime seconds, or refuses.
RotationLifetime == 600
CopilotTokenFor(githubAccessToken) ==
    CASE githubAccessToken = "gho_A" -> "cop-A"
      [] githubAccessToken = "gho_B" -> "cop-B"
      [] OTHER -> "cop-N"
RotationTokenResponses ==
    { AccessTokenOk(t) : t \in
        { TokenData("gho_B", "bearer", "read:user", Undef, Undef),
          TokenData(Undef, Undef, Undef, "authorization_pending", Undef) } }
RotationExchangeResponses(call) ==
    { ExchangeOk(CopilotTokenFor(call.request.authorization),
                 NumPlus(NumFloorDiv1000(now), RotationLifetime)),
      ExchangeFailed("401", "Unauthorized", "Bad credentials") }
RotationNodes ==
    { NodeData(id, Undef, t) : id \in CredentialIds, t \in {Undef, PastedToken} }

InitRotation ==
    /\ now = StartTime
    /\ env = NoEnv
    /\ creds = [id \in CredentialIds |-> IF id = "cred-1" THEN TokenBag ELSE OverridingBag]
    /\ copilotTokenCache = [k \in CacheKeys |-> NoEntry]
    /\ calls = [c \in Slots |-> Idle]
    /\ flow = NoFlow
    /\ copilotModelCache = NoModels

NextRotation ==
    \/ \E c \in Slots : PollDeviceFlowBegin(c, "cred-1", EndToEndBody)
    \/ \E c \in Slots, resp \in RotationTokenResponses : PollDeviceFlowEnd(c, resp)
    \/ \E c \in Slots, nodeData \in RotationNodes : ChatGitHubCopilot_init(c, nodeData)
    \/ \E c \in Slots : \E resp \in RotationExchangeResponses(calls[c]) :
            GetCopilotTokenEnd(c, resp)
    \/ \E c \in Slots : Return(c)
    \/ Tick

SpecRotation == InitRotation /\ [][NextRotation]_vars

\* The whole of it over the life of a process and the next: cred-1 is new and
\* holds nothing, cred-2 was set up elsewhere and holds a Copilot token; the
\* dialog runs the device flow while nodes are initialised and their models
\* listed, one request at a time; the process may restart, which empties both
\* caches and drops the request in flight, and keeps the credentials.
LifeTokenResponses ==
    { AccessTokenOk(TokenData("gho_A", "bearer", "read:user", Undef, Undef)),
      AccessTokenOk(TokenData(Undef, Undef, Undef, "authorization_pending", Undef)),
      AccessTokenOk(TokenData(Undef, Undef, Undef, "access_denied", Undef)),
      UpstreamStatus("503", "Service Unavailable") }
LifeDeviceCodeResponses ==
    { DeviceCodeOk([device_code |-> "dc-1", user_code |-> "WDJB-MJHT"]),
      UpstreamStatus("503", "Service Unavailable") }
LifeNodes == { NodeData(id, Undef, Undef) : id \in CredentialIds }

LifeCredentials ==
    [id \in CredentialIds |-> IF id = "cred-1" THEN EmptyBag ELSE OverridingBag]

InitLife ==
    /\ now = StartTime
    /\ env = NoEnv
    /\ creds = LifeCredentials
    /\ copilotTokenCache = [k \in CacheKeys |-> NoEntry]
    /\ calls = [c \in Slots |-> Idle]
    /\ flow = NoFlow
    /\ copilotModelCache = NoModels

Restart ==
    /\ \/ copilotTokenCache # [k \in CacheKeys |-> NoEntry]
       \/ copilotModelCache # NoModels
    /\ copilotTokenCache' = [k \in CacheKeys |-> NoEntry]
    /\ copilotModelCache' = NoModels
    /\ calls' = [c \in Slots |-> Idle]
    /\ UNCHANGED <<now, env, creds, flow>>

NextLife ==
    \/ \E id \in CredentialIds : StartDeviceFlowBegin("r1", id)
    \/ \E resp \in LifeDeviceCodeResponses : StartDeviceFlowEnd("r1", resp)
    \/ \E id \in CredentialIds : PollDeviceFlowBegin("r1", id, EndToEndBody)
    \/ \E resp \in LifeTokenResponses : PollDeviceFlowEnd("r1", resp)
    \/ \E nodeData \in LifeNodes : ChatGitHubCopilot_init("r1", nodeData)
    \/ \E resp \in NodeExchangeResponses : GetCopilotTokenEnd("r1", resp)
    \/ \E nodeData \in LifeNodes : ListModelsBegin("r1", nodeData)
    \/ \E resp \in NodeExchangeResponses : ListModelsExchanged("r1", resp)
    \/ \E resp \in ModelResponses : ListModelsEnd("r1", resp)
    \/ Return("r1")
    \/ LongTick
    \/ Restart

SpecLife == InitLife /\ [][NextLife]_vars

NextFlow ==
    \/ \E c \in Slots, id \in RequestIds : StartDeviceFlowBegin(c, id)
    \/ \E c \in Slots, resp \in DeviceCodeResponses : StartDeviceFlowEnd(c, resp)
    \/ \E c \in Slots, id \in RequestIds, body \in Bodies : PollDeviceFlowBegin(c, id, body)
    \/ \E c \in Slots, resp \in TokenResponses : PollDeviceFlowEnd(c, resp)
    \/ \E c \in Slots : Return(c)
    \/ Tick

SpecFlow == Init /\ [][NextFlow]_vars

\* The configuration of the device flow: cred-1 holds any combination of the
\* four overrides (absent, empty, set) under any environment, and one request at
\* a time goes through the two routes.
InitConfig ==
    /\ now = StartTime
    /\ env \in AllEnvs
    /\ creds \in { [id \in CredentialIds |-> IF id = "cred-1" THEN b ELSE OverridingBag] :
                      b \in ConfigBags }
    /\ copilotTokenCache = [k \in CacheKeys |-> NoEntry]
    /\ calls = [c \in Slots |-> Idle]
    /\ flow = NoFlow
    /\ copilotModelCache = NoModels

NextConfig ==
    \/ \E id \in RequestIds : StartDeviceFlowBegin("r1", id)
    \/ \E resp \in DeviceCodeResponses : StartDeviceFlowEnd("r1", resp)
    \/ \E id \in RequestIds, body \in Bodies : PollDeviceFlowBegin("r1", id, body)
    \/ \E resp \in TokenResponses : PollDeviceFlowEnd("r1", resp)
    \/ Return("r1")

SpecConfig == InitConfig /\ [][NextConfig]_vars

\* One caller and its flow for cred-1.  The flow is not started yet, or it was
\* started before this process was (the routes keep nothing of it): the caller
\* holds a device_code and polls.
InitCaller ==
    /\ now = StartTime
    /\ env \in Envs
    /\ creds \in { [id \in CredentialIds |-> IF id = "cred-1" THEN b ELSE OverridingBag] :
                      b \in {EmptyBag, OverridingBag} }
    /\ copilotTokenCache = [k \in CacheKeys |-> NoEntry]
    /\ calls = [c \in Slots |-> Idle]
    /\ flow \in {NoFlow, [NoFlow EXCEPT !.state = "PENDING", !.deviceCode = "dc-0"]}
    /\ copilotModelCache = NoModels

NextCaller ==
    \/ \E c \in Slots : CallerStarts(c)
    \/ \E c \in Slots, resp \in DeviceCodeResponses : StartDeviceFlowEnd(c, resp)
    \/ \E c \in Slots : CallerPolls(c)
    \/ \E c \in Slots, resp \in TokenResponses : PollDeviceFlowEnd(c, resp)
    \/ \E c \in Slots : CallerTakes(c)
    \/ Tick

SpecCaller == InitCaller /\ [][NextCaller]_vars

\* The same caller, which keeps going: it sends the request its flow allows and
\* takes every answer; every request to the access-token endpoint is answered;
\* and as long as polls keep being sent, one of them is answered with an
\* access_token.
GrantResponses ==
    { resp \in TokenResponses : resp.ok /\ Truthy(resp.tokenData.access_token) }

SpecCallerFair ==
    /\ SpecCaller
    /\ WF_vars(\E c \in Slots : CallerPolls(c))
    /\ WF_vars(\E c \in Slots : CallerTakes(c))
    /\ WF_vars(\E c \in Slots, resp \in TokenResponses : PollDeviceFlowEnd(c, resp))
    /\ SF_vars(\E c \in Slots, resp \in GrantResponses : PollDeviceFlowEnd(c, resp))

-----------------------------------------------------------------------------
(* Vocabulary of the properties *)

\* The expiry e (in seconds) is strictly later than nowMs / 1000 + buffer
\* seconds.  Computed in milliseconds on the distances from StartTime; an
\* expiry more than 1000 s before StartTime is not later, one more than
\* 1000000 s after it is.
StrictlyLater(e, nowMs, buffer) ==
    LET ahead == e.k - StartSeconds.k
    IN  IF ahead > 1000 THEN TRUE
        ELSE IF ahead < -1 THEN FALSE
        ELSE (ahead * 1000 + e.u - StartSeconds.u) * 1000
                > (nowMs.k - StartTime.k) * 1000 + (nowMs.u - StartTime.u) + buffer * 1000

\* the cache holds for key an entry that is fresh / that is stale now
FreshEntry(key) ==
    /\ copilotTokenCache[key] # NoEntry
    /\ StrictlyLater(copilotTokenCache[key].expiresAt, now, 300)
StaleEntry(key) ==
    /\ copilotTokenCache[key] # NoEntry
    /\ ~StrictlyLater(copilotTokenCache[key].expiresAt, now, 300)

\* the snapshot d holds a token whose normalized expiry is fresh now
FreshSnapshot(d) ==
    /\ Truthy(d.copilotToken)
    /\ TruthyNumber(d.copilotTokenExpiresAt)
    /\ StrictlyLater(normalizeExpiresAt(d.copilotTokenExpiresAt), now, 300)

\* this step is slot c starting a getCopilotToken call
StartsGetCopilotToken(c) ==
    /\ calls[c].pc = "idle"
    /\ calls'[c].pc # "idle"
    /\ calls'[c].op = "getCopilotToken"

-----------------------------------------------------------------------------
(* Properties of the token cache, under SpecToken *)

\* C1: in every reachable state the lookup returns a token, for any key and any
\* credential snapshot, only if that token is the cache entry's and the entry's
\* expiresAt > now + 300, or it is the snapshot's copilotToken and the snapshot's
\* normalized copilotTokenExpiresAt > now + 300.
C1_ReturnedTokenIsFresh ==
    \A key \in CacheKeys, d \in Snapshots :
        LET r == getCachedCopilotToken(copilotTokenCache, now, key, d)
        IN  r.token # Undef =>
                \/ FreshEntry(key) /\ r.token = copilotTokenCache[key].token
                \/ FreshSnapshot(d) /\ r.token = d.copilotToken

\* C1 witness: a call has got its token from the cache while another key's
\* entry expires at exactly now + 300 and is refused by the lookup.
C1_Witness ==
    \E c \in Slots, k \in CacheKeys :
        /\ calls[c].pc = "done" /\ calls[c].via = "cache"
        /\ FreshEntry(calls[c].key)
        /\ copilotTokenCache[k].expiresAt = NumPlus(NumFloorDiv1000(now), 300)
        /\ getCachedCopilotToken(copilotTokenCache, now, k, EmptyBag).token = Undef

\* C2: while the entry of a key is fresh (expiresAt > now + 300) the lookup returns
\* that entry's token and leaves the cache as it is, whatever the snapshot; and a
\* getCopilotToken call for the key ends at once with that token, has sent no
\* exchange request, and leaves the cache unchanged, whatever access token and
\* snapshot it was given.
C2_FreshEntryIsServed ==
    /\ [](\A key \in CacheKeys, d \in Snapshots :
              FreshEntry(key) =>
                  LET r == getCachedCopilotToken(copilotTokenCache, now, key, d)
                  IN  r.token = copilotTokenCache[key].token /\ r.cache = copilotTokenCache)
    /\ [][ \A c \in Slots :
              StartsGetCopilotToken(c) /\ FreshEntry(calls'[c].key) =>
                  /\ calls'[c].pc = "done"
                  /\ calls'[c].returned = copilotTokenCache[calls'[c].key].token
                  /\ calls'[c].threw = Undef
                  /\ calls'[c].upstream.exchange = 0
                  /\ calls'[c].request = NoRequest
                  /\ copilotTokenCache' = copilotTokenCache ]_vars

\* C2 witness: a call was answered from the cache with a token other than the
\* one a fresh snapshot would have given.
C2_Witness ==
    \E c \in Slots :
        /\ calls[c].pc = "done" /\ calls[c].via = "cache"
        /\ calls[c].upstream.exchange = 0
        /\ FreshEntry(calls[c].key)
        /\ calls[c].returned = copilotTokenCache[calls[c].key].token
        /\ calls[c].returned \in {"cop-1", "cop-2"}

Includes(parts, x) == \E i \in 1..Len(parts) : parts[i] = x

\* the entry a successful exchange response gives
IssuedBy(resp) ==
    [token |-> resp.token, expiresAt |-> normalizeExpiresAt(resp.expires_at)]

\* the entry the lookup stores for the snapshot d
SeedOf(d) ==
    [token |-> d.copilotToken, expiresAt |-> normalizeExpiresAt(d.copilotTokenExpiresAt)]

\* C11: when the cache holds no fresh entry for a key (none, or a stale one) and
\* the snapshot holds a copilotToken whose normalized copilotTokenExpiresAt is
\* > now + 300, the lookup returns the snapshot's token and leaves the cache with
\* exactly {that token, the normalized expiry} for the key and every other key as
\* it was; and a getCopilotToken call that finds no fresh entry either goes on to
\* the exchange with the cache untouched, or ends at once with the token of a
\* fresh snapshot, that snapshot's seed in the cache, and no exchange request.
C11_FreshSnapshotSeedsCache ==
    /\ [](\A key \in CacheKeys, d \in Snapshots :
              ~FreshEntry(key) /\ FreshSnapshot(d) =>
                  LET r == getCachedCopilotToken(copilotTokenCache, now, key, d)
                  IN  /\ r.token = d.copilotToken
                      /\ r.cache = [copilotTokenCache EXCEPT ![key] = SeedOf(d)])
    /\ [][ \A c \in Slots :
              StartsGetCopilotToken(c) /\ ~FreshEntry(calls'[c].key) =>
                  \/ /\ calls'[c].pc = "awaitExchange"
                     /\ copilotTokenCache' = copilotTokenCache
                  \/ \E d \in Snapshots :
                        /\ FreshSnapshot(d)
                        /\ calls'[c].pc = "done"
                        /\ calls'[c].returned = d.copilotToken
                        /\ calls'[c].threw = Undef
                        /\ calls'[c].upstream.exchange = 0
                        /\ calls'[c].request = NoRequest
                        /\ copilotTokenCache' =
                              [copilotTokenCache EXCEPT ![calls'[c].key] = SeedOf(d)] ]_vars

\* C11 witness: one call got cop-1 from the exchange and another, for the same
\* key, the snapshot's token without an exchange; the cache holds the snapshot's
\* token with its expiry, given in milliseconds, in seconds: the seed has taken
\* the place of the exchanged entry, which was stale by then.
C11_Witness ==
    \E c, d \in Slots :
        /\ calls[c].pc = "done" /\ calls[c].via = "exchange" /\ calls[c].returned = "cop-1"
        /\ calls[d].pc = "done" /\ calls[d].via = "snapshot"
        /\ calls[d].key = calls[c].key
        /\ calls[d].upstream.exchange = 0
        /\ calls[d].returned = "cop-S"
        /\ copilotTokenCache[calls[d].key] = [token |-> "cop-S", expiresAt |-> InSeconds(600)]

\* the expiry values the exchange endpoint and the snapshots give
RawExpiries ==
    ({ resp.expires_at : resp \in { r \in ExchangeResponses : r.ok } }
        \cup { d.copilotTokenExpiresAt : d \in Snapshots }) \ {NoNumber}

\* x > 10^12, where x = x.k * 1000 + x.u
ExceedsThreshold(x) == x.k > 1000000000 \/ (x.k = 1000000000 /\ x.u > 0)

\* C14: for every expiry x that a snapshot or an exchange response gives,
\* normalizeExpiresAt(x) is floor(x / 1000) when x > 10^12 (the r with
\* r * 1000 <= x < r * 1000 + 1000) and x itself otherwise, 10^12 included; every
\* entry of the token cache holds the normalized expiry of a response or a
\* snapshot, never a value above 10^12; and the lookup compares a snapshot's
\* normalized expiry, not the one it finds, with now + 300.
C14_ExpiryIsNormalized ==
    /\ \A x \in RawExpiries :
          LET r == normalizeExpiresAt(x)
          IN  IF ExceedsThreshold(x)
                THEN r.k * 1000 + r.u = x.k /\ r.u \in 0..999
                ELSE r = x
    /\ normalizeExpiresAt(Num(1000000000, 0)) = Num(1000000000, 0)
    /\ \A key \in CacheKeys :
          copilotTokenCache[key] # NoEntry =>
              /\ ~ExceedsThreshold(copilotTokenCache[key].expiresAt)
              /\ \E x \in RawExpiries :
                    copilotTokenCache[key].expiresAt = normalizeExpiresAt(x)
    /\ \A key \in CacheKeys, d \in Snapshots :
          LET x == d.copilotTokenExpiresAt
              r == getCachedCopilotToken(copilotTokenCache, now, key, d)
          IN  ~FreshEntry(key) /\ Truthy(d.copilotToken) /\ ExceedsThreshold(x) =>
                  (r.token = d.copilotToken
                      <=> StrictlyLater(Num(x.k \div 1000, x.k % 1000), now, 300))

\* C14 witness: the cache holds the snapshot's token with the expiry 10^12 as the
\* snapshot gave it, and the token of an exchange response that expires at
\* 10^12 + 1 with the expiry 10^9.
C14_Witness ==
    \E j, k \in CacheKeys :
        /\ copilotTokenCache[j] = [token |-> "cop-S", expiresAt |-> Num(1000000000, 0)]
        /\ copilotTokenCache[k] = [token |-> "cop-2", expiresAt |-> Num(1000000, 0)]

\* this step is slot c's getCopilotToken taking the exchange endpoint's answer
ExchangeAnswered(c) ==
    /\ calls[c].pc = "awaitExchange"
    /\ calls'[c].pc = "done"

\* the exchange endpoint's answers with a status outside 2xx
ExchangeRefusals == { resp \in ExchangeResponses : ~resp.ok /\ ~resp.rejected }

\* C13: a getCopilotToken call that fails with 'Failed to get Copilot token' has
\* sent exactly one exchange request and returns nothing; its error's message
\* includes the status and the body of one non-2xx answer of the exchange
\* endpoint; the step that fails leaves the token cache as it is, as did the
\* step that sent the request; and a call that has failed sends nothing more.
C13_FailedExchangeIsReported ==
    [][ \A c \in Slots :
          /\ StartsGetCopilotToken(c) /\ calls'[c].pc = "awaitExchange" =>
                copilotTokenCache' = copilotTokenCache
          /\ ExchangeAnswered(c) /\ calls'[c].threw = "Failed to get Copilot token: " =>
                /\ \E resp \in ExchangeRefusals :
                      /\ Includes(calls'[c].response.cause, resp.status)
                      /\ Includes(calls'[c].response.cause, resp.body)
                      /\ calls'[c].response.cause[1] = resp.status
                /\ calls'[c].returned = Undef
                /\ calls'[c].upstream.exchange = 1
                /\ copilotTokenCache' = copilotTokenCache
          /\ calls[c].pc = "done" /\ calls[c].threw # Undef =>
                calls'[c] \in {calls[c], Idle}
          /\ ExchangeAnswered(c) /\ calls'[c].threw = Undef =>
                calls'[c].returned # Undef ]_vars

\* C13 witness: a call for a key with a stale entry has failed on a 403, its
\* error's message holds '403' and the answer's body, and the stale entry is
\* still the key's entry.
C13_Witness ==
    \E c \in Slots :
        /\ calls[c].op = "getCopilotToken" /\ calls[c].pc = "done"
        /\ calls[c].threw = "Failed to get Copilot token: "
        /\ calls[c].response.cause = <<"403", " ", "Forbidden", " - ", "API rate limit exceeded">>
        /\ calls[c].upstream.exchange = 1
        /\ StaleEntry(calls[c].key)

\* the exchange endpoint's 2xx answers
ExchangeGrants == { resp \in ExchangeResponses : resp.ok }

\* the snapshots whose token the lookup may ever have stored: fresh at StartTime
SeedableSnapshots ==
    { d \in Snapshots :
        /\ Truthy(d.copilotToken)
        /\ TruthyNumber(d.copilotTokenExpiresAt)
        /\ StrictlyLater(normalizeExpiresAt(d.copilotTokenExpiresAt), StartTime, 300) }

\* C17: however getCopilotToken calls interleave, for one key or for several:
\* no call sends more than one exchange request; a token got from the exchange is
\* the token of one of its 2xx answers, and any token returned is such a token or
\* a snapshot's; every cache entry is the whole {token, normalized expires_at}
\* pair of one exchange answer (or of one snapshot), never the token of one with
\* the expiry of another; and a call that takes a 2xx answer leaves that answer's
\* pair as the key's entry, whatever another call had stored there meanwhile.
C17_RacingCallsLeaveOneResponse ==
    /\ [](\A c \in Slots :
              /\ calls[c].upstream.exchange <= 1
              /\ calls[c].via = "exchange" =>
                    \E resp \in ExchangeGrants : calls[c].returned = resp.token
              /\ calls[c].returned # Undef =>
                    \/ \E resp \in ExchangeGrants : calls[c].returned = resp.token
                    \/ \E d \in SeedableSnapshots : calls[c].returned = d.copilotToken)
    /\ [](\A key \in CacheKeys :
              copilotTokenCache[key] # NoEntry =>
                  \/ \E resp \in ExchangeGrants : copilotTokenCache[key] = IssuedBy(resp)
                  \/ \E d \in SeedableSnapshots : copilotTokenCache[key] = SeedOf(d))
    /\ [][ \A c \in Slots :
              ExchangeAnswered(c) /\ calls'[c].threw = Undef =>
                  \E resp \in ExchangeGrants :
                      /\ calls'[c].returned = resp.token
                      /\ copilotTokenCache'[calls[c].key] = IssuedBy(resp) ]_vars

\* C17 witness: two calls for one key raced from a cold cache.  One has got
\* cop-2 from its exchange and stored it with an expiry that is fresh; the
\* other, which had looked the key up before that, still waits for the answer
\* to its own exchange request.
C17_Witness ==
    \E c, d \in Slots :
        /\ now = StartTime
        /\ calls[c].pc = "done" /\ calls[c].via = "exchange"
        /\ calls[c].returned = "cop-2"
        /\ copilotTokenCache[calls[c].key] = [token |-> "cop-2", expiresAt |-> InSeconds(450)]
        /\ calls[d].pc = "awaitExchange" /\ calls[d].key = calls[c].key
        /\ calls[d].upstream.exchange = 1

-----------------------------------------------------------------------------
(* Properties of the chat model node on stored credentials, under SpecChatModel *)

\* C12: a getCopilotToken call that finds neither a fresh entry nor a fresh
\* snapshot sends one request to the exchange endpoint, authorized by the
\* githubAccessToken it was given (the stored credential's); when the exchange
\* succeeds the call returns the response's token and the key's entry becomes
\* {that token, normalized expires_at}, every other entry as it was; and a call
\* for a key whose entry holds an exchanged token with now + 300 < its expiry
\* returns that token and sends no exchange request.
C12_ExchangedTokenIsCached ==
    [][ \A c \in Slots :
          /\ StartsGetCopilotToken(c) =>
                LET key == calls'[c].key
                IN  IF FreshEntry(key)
                      THEN /\ calls'[c].pc = "done"
                           /\ calls'[c].returned = copilotTokenCache[key].token
                           /\ calls'[c].upstream.exchange = 0
                           /\ calls'[c].request = NoRequest
                      ELSE ~FreshSnapshot(creds[key]) =>
                           /\ calls'[c].pc = "awaitExchange"
                           /\ calls'[c].request.url = "COPILOT_TOKEN_URL"
                           /\ calls'[c].request.authorization = creds[key].githubAccessToken
                           /\ calls'[c].upstream.exchange = 1
          /\ ExchangeAnswered(c) /\ calls'[c].threw = Undef =>
                \E resp \in ExchangeResponses :
                    /\ resp.ok
                    /\ calls'[c].returned = resp.token
                    /\ calls'[c].upstream.exchange = 1
                    /\ copilotTokenCache' =
                          [copilotTokenCache EXCEPT ![calls[c].key] = IssuedBy(resp)] ]_vars

\* C12 witness: after time has passed, a call for cred-1 was answered from the
\* cache with the token cop-1 that an exchange had issued with a millisecond
\* expiry, without an exchange of its own; the credential's snapshot is not
\* fresh.
C12_Witness ==
    \E c \in Slots :
        /\ calls[c].pc = "done" /\ calls[c].via = "cache"
        /\ calls[c].key = "cred-1"
        /\ calls[c].returned = "cop-1"
        /\ calls[c].upstream.exchange = 0
        /\ copilotTokenCache["cred-1"] = [token |-> "cop-1", expiresAt |-> InSeconds(600)]
        /\ ~FreshSnapshot(creds["cred-1"])
        /\ now # StartTime

-----------------------------------------------------------------------------
(* Properties of the device flow, under SpecFlow *)

\* this step is slot c starting a call of the route op
StartsRoute(c, op) ==
    /\ calls[c].pc = "idle"
    /\ calls'[c].pc # "idle"
    /\ calls'[c].op = op

\* this step is slot c's pollDeviceFlow taking the token endpoint's answer,
\* which is calls'[c].received
PollAnswered(c) ==
    /\ calls[c].pc = "awaitAccessToken"
    /\ calls'[c].pc = "done"

\* the 2xx answer of the token endpoint that slot c has got carries / lacks an
\* access_token
GotAccessToken(call) ==
    call.received.ok /\ call.received.tokenData.access_token \notin {Undef, ""}
GotNoAccessToken(call) ==
    call.received.ok /\ call.received.tokenData.access_token \in {Undef, ""}

Pending == {"authorization_pending", "slow_down"}

TokenAttributes ==
    {"githubAccessToken", "githubTokenType", "githubTokenScope", "githubTokenReceivedAt"}

\* C4: when the token endpoint's response carries a non-empty access_token, the
\* credential stored after the poll is the bag the poll read before its request,
\* with githubAccessToken that access_token, githubTokenType and githubTokenScope
\* the response's token_type and scope, githubTokenReceivedAt the time of the
\* response, and every other attribute as read; no other credential changes, and
\* the answer is 200 {success: true, status: "authorized", credentialId}.
C4_AuthorizedPollStoresToken ==
    [][ \A c \in Slots :
            PollAnswered(c) /\ GotAccessToken(calls'[c]) =>
                LET id     == calls[c].key
                    read   == calls[c].decryptedData
                    got    == calls'[c].received.tokenData
                    stored == creds'[id]
                IN  /\ stored.githubAccessToken = got.access_token
                    /\ stored.githubTokenType = got.token_type
                    /\ stored.githubTokenScope = got.scope
                    /\ stored.githubTokenReceivedAt = now
                    /\ \A a \in DOMAIN EmptyBag \ TokenAttributes : stored[a] = read[a]
                    /\ \A other \in DOMAIN creds \ {id} : creds'[other] = creds[other]
                    /\ DOMAIN creds' = DOMAIN creds
                    /\ calls'[c].repoWrites = 1
                    /\ calls'[c].response.code = 200
                    /\ calls'[c].response.success = TRUE
                    /\ calls'[c].response.status = "authorized"
                    /\ calls'[c].response.credentialId = id ]_vars

\* C4 witness: a poll was answered "authorized"; the credential holds the new
\* access token in place of the old one, and still its client id override and
\* its Copilot token.
C4_Witness ==
    \E c \in Slots :
        /\ calls[c].op = "pollDeviceFlow" /\ calls[c].pc = "done"
        /\ calls[c].response.status = "authorized"
        /\ GotAccessToken(calls[c])
        /\ creds[calls[c].key].githubAccessToken = calls[c].received.tokenData.access_token
        /\ creds[calls[c].key].githubAccessToken = "gho_B"
        /\ creds[calls[c].key].githubTokenType = Undef
        /\ creds[calls[c].key].clientId = "cred-client"
        /\ creds[calls[c].key].copilotToken = "cop-S"

\* C5: when the token endpoint's response carries no access_token and its error
\* is authorization_pending or slow_down, the poll answers 200 with success false
\* and that error as status, passes no error to the error handler, and writes no
\* credential.
C5_PendingPollIsNoError ==
    [][ \A c \in Slots :
            /\ PollAnswered(c)
            /\ GotNoAccessToken(calls'[c])
            /\ calls'[c].received.tokenData.error \in Pending
            =>  /\ calls'[c].response.code = 200
                /\ calls'[c].response.success = FALSE
                /\ calls'[c].response.status = calls'[c].received.tokenData.error
                /\ calls'[c].response.cause = <<>>
                /\ calls'[c].repoWrites = 0
                /\ creds' = creds ]_vars

\* C5 witness: a poll was answered 200 with status slow_down.
C5_Witness ==
    \E c \in Slots :
        /\ calls[c].op = "pollDeviceFlow" /\ calls[c].pc = "done"
        /\ GotNoAccessToken(calls[c])
        /\ calls[c].received.tokenData.error = "slow_down"
        /\ calls[c].response.code = 200
        /\ calls[c].response.status = "slow_down"

\* C6: when the token endpoint's response carries no access_token and its error
\* is neither authorization_pending nor slow_down, or there is no error field,
\* the poll answers 400 with success false and status the upstream error,
\* "unknown_error" when there is none, and writes no credential.
C6_TerminalPollIsBadRequest ==
    [][ \A c \in Slots :
            /\ PollAnswered(c)
            /\ GotNoAccessToken(calls'[c])
            /\ calls'[c].received.tokenData.error \notin Pending
            =>  /\ calls'[c].response.code = 400
                /\ calls'[c].response.success = FALSE
                /\ calls'[c].response.status =
                        IF calls'[c].received.tokenData.error \in {Undef, ""}
                            THEN "unknown_error"
                            ELSE calls'[c].received.tokenData.error
                /\ calls'[c].repoWrites = 0
                /\ creds' = creds ]_vars

\* C6 witness: a poll whose upstream response held neither access_token nor
\* error was answered 400 with status unknown_error.
C6_Witness ==
    \E c \in Slots :
        /\ calls[c].op = "pollDeviceFlow" /\ calls[c].pc = "done"
        /\ calls[c].received = AccessTokenOk(NoTokenData)
        /\ calls[c].response.code = 400
        /\ calls[c].response.status = "unknown_error"

\* C7: a poll whose body has no deviceCode, or an empty one, is answered 400 at
\* once: no upstream request, no credential lookup, no credential write; also
\* when the credential id is unknown, where a lookup would have answered 404.
C7_MissingDeviceCodeIsBadRequest ==
    [][ \A c \in Slots :
            StartsRoute(c, "pollDeviceFlow") /\ calls'[c].deviceCode \in {Undef, ""} =>
                /\ calls'[c].pc = "done"
                /\ calls'[c].response.code = 400
                /\ calls'[c].response.success = FALSE
                /\ calls'[c].upstream = NoUpstream
                /\ calls'[c].request = NoRequest
                /\ calls'[c].repoReads = 0
                /\ calls'[c].repoWrites = 0
                /\ creds' = creds ]_vars

\* C7 witness: a poll for an unknown credential id with an empty deviceCode was
\* answered 400.
C7_Witness ==
    \E c \in Slots :
        /\ calls[c].op = "pollDeviceFlow" /\ calls[c].pc = "done"
        /\ calls[c].key \notin DOMAIN creds
        /\ calls[c].deviceCode = ""
        /\ calls[c].response.code = 400

\* C8: for a credential id the repository does not hold, startDeviceFlow, and
\* pollDeviceFlow with a non-empty deviceCode, answer 404, send no request to
\* the authorization server and write no credential.
C8_UnknownCredentialIsNotFound ==
    [][ \A c \in Slots :
            /\ \/ StartsRoute(c, "startDeviceFlow")
               \/ StartsRoute(c, "pollDeviceFlow") /\ calls'[c].deviceCode \notin {Undef, ""}
            /\ calls'[c].key \notin DOMAIN creds
            =>  /\ calls'[c].pc = "done"
                /\ calls'[c].response.code = 404
                /\ calls'[c].response.success = FALSE
                /\ calls'[c].upstream = NoUpstream
                /\ calls'[c].request = NoRequest
                /\ calls'[c].repoWrites = 0
                /\ creds' = creds ]_vars

\* C8 witness: a start and a poll with a deviceCode, both for an unknown id, were
\* answered 404.
C8_Witness ==
    \E c, d \in Slots :
        /\ calls[c].op = "startDeviceFlow" /\ calls[c].pc = "done"
        /\ calls[c].key \notin DOMAIN creds
        /\ calls[c].response.code = 404
        /\ calls[d].op = "pollDeviceFlow" /\ calls[d].pc = "done"
        /\ calls[d].key \notin DOMAIN creds
        /\ calls[d].deviceCode = "dc-1"
        /\ calls[d].response.code = 404

\* this step is slot c's startDeviceFlow taking the device-code endpoint's
\* answer, which is calls'[c].received
StartAnswered(c) ==
    /\ calls[c].pc = "awaitDeviceCode"
    /\ calls'[c].pc = "done"

\* C16 as stated: when the request to the authorization server fails (no
\* response, or a status outside 2xx), startDeviceFlow and pollDeviceFlow pass
\* to the error handler an internal (500) error whose message includes the
\* status and the body the authorization server sent, and write no credential.
C16_UpstreamFailureIsReported ==
    [][ \A c \in Slots :
            (StartAnswered(c) \/ PollAnswered(c)) /\ ~calls'[c].received.ok =>
                LET got == calls'[c].received
                IN  /\ calls'[c].response.code = 500
                    /\ calls'[c].response.success = FALSE
                    /\ got.status # Undef => Includes(calls'[c].response.cause, got.status)
                    /\ got.body # Undef => Includes(calls'[c].response.cause, got.body)
                    /\ calls'[c].repoWrites = 0
                    /\ creds' = creds ]_vars

-----------------------------------------------------------------------------
(* Properties of the device-flow configuration, under SpecConfig *)

\* the first of the values that is neither absent nor empty
FirstSet(values) ==
    LET set == { i \in 1..Len(values) : values[i] \notin {Undef, ""} }
    IN  values[CHOOSE i \in set : \A j \in set : i <= j]

\* C9: the client id a request to the authorization server carries is the
\* credential's deviceFlowClientId, else its clientId, else
\* GITHUB_DEVICE_FLOW_CLIENT_ID, else the built-in default, taking the first that
\* is not empty; the scope of a device-code request is likewise the first of
\* deviceFlowScope, scope, GITHUB_DEVICE_FLOW_SCOPE and 'read:user workflow repo';
\* each is resolved without regard to the other.
C9_ConfigPrecedence ==
    \A c \in Slots :
        calls[c].pc \in {"awaitDeviceCode", "awaitAccessToken"} =>
            LET bag == creds[calls[c].key]
            IN  /\ calls[c].request.client_id =
                        FirstSet(<<bag.deviceFlowClientId, bag.clientId,
                                   env.GITHUB_DEVICE_FLOW_CLIENT_ID, "Iv1.b507a08c87ecfe98">>)
                /\ calls[c].pc = "awaitDeviceCode" =>
                        calls[c].request.scope =
                            FirstSet(<<bag.deviceFlowScope, bag.scope,
                                       env.GITHUB_DEVICE_FLOW_SCOPE, "read:user workflow repo">>)

\* C9 witness: for a credential without overrides, under an environment without
\* the two variables, startDeviceFlow has sent the built-in client id and the
\* scope 'read:user workflow repo'.
C9_Witness ==
    \E c \in Slots :
        /\ calls[c].op = "startDeviceFlow" /\ calls[c].pc = "awaitDeviceCode"
        /\ creds[calls[c].key] = EmptyBag
        /\ env = NoEnv
        /\ calls[c].request.client_id = "Iv1.b507a08c87ecfe98"
        /\ calls[c].request.scope = "read:user workflow repo"

-----------------------------------------------------------------------------
(* Properties of the device flow followed by the chat model, under SpecEndToEnd *)

\* a poll has stored a token in the credential id: only the poll route writes
\* githubTokenReceivedAt, and InitEndToEnd's cred-1 holds none
Authorized(id) == creds[id].githubTokenReceivedAt # NoNumber

\* this step is slot c starting the chat model's init for a credential
StartsInit(c) ==
    /\ calls[c].pc = "idle"
    /\ calls'[c].pc # "idle"
    /\ calls'[c].op \in {"init", "getCopilotToken"}

\* C15: a poll answered "authorized" leaves its access_token in the credential's
\* githubAccessToken, where it stays; from then on the chat model's init for that
\* credential does not fail for a missing token: it calls getCopilotToken, which
\* returns the cached token or asks the exchange endpoint with the stored
\* githubAccessToken, and when the exchange succeeds it returns the response's
\* token; the call sends no request to the device-code or access-token endpoint,
\* and its steps leave the device-flow slot and the credentials as they are.
C15_AuthorizedCredentialGetsToken ==
    /\ [](\A id \in CredentialIds : Authorized(id) => Truthy(creds[id].githubAccessToken))
    /\ [][ \A c \in Slots :
              /\ PollAnswered(c) /\ calls'[c].response.status = "authorized" =>
                    /\ Authorized(calls[c].key)'
                    /\ creds'[calls[c].key].githubAccessToken =
                            calls'[c].received.tokenData.access_token
              /\ StartsInit(c) /\ Authorized(calls'[c].key) =>
                    /\ calls'[c].op = "getCopilotToken"
                    /\ calls'[c].threw = Undef
                    /\ \/ /\ calls'[c].pc = "done"
                          /\ Truthy(calls'[c].returned)
                          /\ calls'[c].upstream = NoUpstream
                       \/ /\ calls'[c].pc = "awaitExchange"
                          /\ calls'[c].request.url = "COPILOT_TOKEN_URL"
                          /\ calls'[c].request.authorization =
                                  creds[calls'[c].key].githubAccessToken
                          /\ calls'[c].upstream = [NoUpstream EXCEPT !.exchange = 1]
                    /\ creds' = creds
                    /\ \A o \in Slots \ {c} : calls'[o] = calls[o]
              /\ ExchangeAnswered(c) =>
                    /\ calls'[c].threw = Undef =>
                          /\ Truthy(calls'[c].returned)
                          /\ \E resp \in EndToEndExchangeResponses :
                                resp.ok /\ calls'[c].returned = resp.token
                    /\ calls'[c].upstream = [NoUpstream EXCEPT !.exchange = 1]
                    /\ creds' = creds
                    /\ \A o \in Slots \ {c} : calls'[o] = calls[o] ]_vars

\* C15 witness: the poll for cred-1 has just been answered "authorized" with
\* gho_B, and the chat model's init for cred-1 has got cop-1 from the exchange
\* endpoint, asked with one request and none to the authorization server.
C15_Witness ==
    /\ calls["r1"].op = "pollDeviceFlow" /\ calls["r1"].pc = "done"
    /\ calls["r1"].response.status = "authorized"
    /\ creds["cred-1"].githubAccessToken = "gho_B"
    /\ calls["r2"].op = "getCopilotToken" /\ calls["r2"].pc = "done"
    /\ calls["r2"].key = "cred-1"
    /\ calls["r2"].via = "exchange"
    /\ calls["r2"].returned = "cop-1"
    /\ calls["r2"].upstream = [deviceCode |-> 0, accessToken |-> 0, exchange |-> 1]

\* the requests a call of each operation may have sent
AtMostOne(op) ==
    { u \in [deviceCode : {0, 1}, accessToken : {0, 1}, exchange : {0, 1}] :
        /\ op # "startDeviceFlow" => u.deviceCode = 0
        /\ op # "pollDeviceFlow" => u.accessToken = 0
        /\ op # "getCopilotToken" => u.exchange = 0 }

Awaiting == {"awaitDeviceCode", "awaitAccessToken", "awaitExchange"}

\* C18: a call of startDeviceFlow has sent at most one device-code request and
\* nothing else, a call of pollDeviceFlow at most one access-token request, a
\* call of getCopilotToken at most one exchange request; whatever answer a call
\* that waits for an upstream takes (a token, authorization_pending, slow_down,
\* an error, a status outside 2xx, no response at all), that step ends the call
\* and sends nothing; and a call that has ended sends nothing more.
C18_NothingIsRetried ==
    /\ [](\A c \in Slots : calls[c].upstream \in AtMostOne(calls[c].op))
    /\ [][ \A c \in Slots :
              /\ calls[c].pc \in Awaiting /\ calls'[c] # calls[c] =>
                    /\ calls'[c].pc = "done"
                    /\ calls'[c].request = NoRequest
                    /\ calls'[c].upstream = calls[c].upstream
              /\ calls[c].pc = "done" => calls'[c] \in {calls[c], Idle} ]_vars

\* C18 witness: a poll was answered slow_down and a getCopilotToken call lost
\* its connection to the exchange endpoint; both calls have ended, each after
\* one request.
C18_Witness ==
    \E c, d \in Slots :
        /\ calls[c].op = "pollDeviceFlow" /\ calls[c].pc = "done"
        /\ calls[c].response.status = "slow_down"
        /\ calls[c].upstream = [deviceCode |-> 0, accessToken |-> 1, exchange |-> 0]
        /\ calls[d].op = "getCopilotToken" /\ calls[d].pc = "done"
        /\ calls[d].threw = "request to COPILOT_TOKEN_URL failed, reason: ECONNRESET"
        /\ calls[d].upstream = [deviceCode |-> 0, accessToken |-> 0, exchange |-> 1]

-----------------------------------------------------------------------------
(* Properties of the flow a caller drives, under SpecCaller *)

\* this step is the caller taking the answer of slot c's call
Takes(c) ==
    /\ calls[c].pc = "done"
    /\ calls'[c].pc = "idle"

Terminal == {"AUTHORIZED", "DENIED/EXPIRED"}

\* a poll of this flow has stored a token in the flow's credential
HoldsFlowToken ==
    /\ creds[FlowCredential].githubTokenReceivedAt # NoNumber
    /\ creds[FlowCredential].githubAccessToken \notin {Undef, ""}

\* C19: the flow changes only when the caller takes the answer of a call, and
\* only so: from NOT_STARTED to PENDING when the device-code endpoint answered
\* 2xx (a failed start leaves it NOT_STARTED); from PENDING to AUTHORIZED when the
\* access-token endpoint's answer carried an access_token, to PENDING when it
\* carried none and the error authorization_pending or slow_down, to
\* DENIED/EXPIRED on any other answer or none.  In AUTHORIZED and DENIED/EXPIRED
\* the caller sends no request and the flow stays.  Between two calls the
\* credential holds a token of this flow exactly when the flow is AUTHORIZED.
C19_FlowFollowsItsTransitions ==
    /\ [](flow.state \in {"NOT_STARTED", "PENDING", "AUTHORIZED", "DENIED/EXPIRED"})
    /\ [](CallerIdle => (flow.state = "AUTHORIZED" <=> HoldsFlowToken))
    /\ [][ /\ flow' # flow => \E c \in Slots : Takes(c)
           /\ flow.state \in Terminal => flow' = flow /\ calls' = calls /\ creds' = creds
           /\ \A c \in Slots :
                 Takes(c) =>
                   LET got == calls[c].received
                   IN  IF calls[c].op = "startDeviceFlow"
                         THEN /\ flow.state = "NOT_STARTED"
                              /\ flow'.state = IF got.ok THEN "PENDING" ELSE "NOT_STARTED"
                              /\ got.ok => flow'.deviceCode = got.data.device_code
                         ELSE /\ flow.state = "PENDING"
                              /\ calls[c].deviceCode = flow.deviceCode
                              /\ flow'.state =
                                    IF got.ok /\ got.tokenData.access_token \notin {Undef, ""}
                                        THEN "AUTHORIZED"
                                    ELSE IF got.ok /\ got.tokenData.error \in Pending
                                        THEN "PENDING"
                                    ELSE "DENIED/EXPIRED" ]_vars

\* C19 witness: a flow that was started here and polled at least twice is
\* AUTHORIZED, and the credential holds the token gho_B of its last poll beside
\* the client id it had.
C19_Witness ==
    /\ flow.state = "AUTHORIZED"
    /\ flow.deviceCode = "dc-1"
    /\ flow.polls >= 2
    /\ CallerIdle
    /\ creds[FlowCredential].githubAccessToken = "gho_B"
    /\ creds[FlowCredential].clientId = "cred-client"

-----------------------------------------------------------------------------
(* Properties of polling, under SpecCallerFair *)

\* every answer the access-token endpoint has given to a poll is an access_token
\* or "still pending"
UpstreamNeverEnds ==
    \A c \in Slots :
        calls[c].op = "pollDeviceFlow" /\ calls[c].received # NoReceived =>
            /\ calls[c].received.ok
            /\ \/ calls[c].received.tokenData.access_token \notin {Undef, ""}
               \/ calls[c].received.tokenData.error \in Pending

\* C20: whatever the flow's state and however many polls were made, and whether
\* or not the flow was started on this process, a poll with a deviceCode for a
\* stored credential sends that deviceCode to the access-token endpoint, and its
\* outcome is decided by the endpoint's answer and the credential as the poll
\* read it: 500 when the request failed, "authorized" and the credential with
\* the four token attributes replaced when the answer carries an access_token,
\* 200 with the error as status on authorization_pending and slow_down, 400
\* otherwise; nothing but an "authorized" poll changes a credential.  Hence a
\* flow that is PENDING becomes AUTHORIZED when the caller keeps polling and the
\* endpoint, after answering "still pending" any number of times, answers with
\* an access_token.
C20_PollingIsStateless ==
    /\ [][ \A c \in Slots :
              /\ /\ StartsRoute(c, "pollDeviceFlow")
                 /\ calls'[c].deviceCode \notin {Undef, ""}
                 /\ calls'[c].key \in DOMAIN creds
                 => /\ calls'[c].pc = "awaitAccessToken"
                    /\ calls'[c].request.url = "ACCESS_TOKEN_URL"
                    /\ calls'[c].request.device_code = calls'[c].deviceCode
                    /\ calls'[c].decryptedData = creds[calls'[c].key]
              /\ PollAnswered(c) =>
                    LET got    == calls'[c].received
                        answer == calls'[c].response
                    IN  IF ~got.ok
                          THEN answer.code = 500 /\ creds' = creds
                        ELSE IF got.tokenData.access_token \notin {Undef, ""}
                          THEN /\ answer.code = 200 /\ answer.status = "authorized"
                               /\ creds' = [creds EXCEPT ![calls[c].key] =
                                    [calls[c].decryptedData EXCEPT
                                        !.githubAccessToken = got.tokenData.access_token,
                                        !.githubTokenType = got.tokenData.token_type,
                                        !.githubTokenScope = got.tokenData.scope,
                                        !.githubTokenReceivedAt = now]]
                        ELSE IF got.tokenData.error \in Pending
                          THEN /\ answer.code = 200 /\ answer.status = got.tokenData.error
                               /\ creds' = creds
                        ELSE answer.code = 400 /\ creds' = creds
              /\ ~PollAnswered(c) /\ calls'[c] # calls[c] => creds' = creds ]_vars
    /\ []UpstreamNeverEnds => (flow.state = "PENDING" ~> flow.state = "AUTHORIZED")

\* C20 witness: a flow that was never started on this process (its device_code
\* dc-0 is not one this process gave out) is AUTHORIZED after MaxPolls polls or
\* more, the last one made after the clock's last tick.
C20_Witness ==
    /\ flow.state = "AUTHORIZED"
    /\ flow.deviceCode = "dc-0"
    /\ flow.polls = MaxPolls
    /\ creds[FlowCredential].githubTokenReceivedAt = Num(StartTime.k + MaxTicks * TickSeconds, 0)
    /\ creds[FlowCredential].githubAccessToken = "gho_A"

-----------------------------------------------------------------------------
(* Properties of the chat model node's init, under SpecNode *)

\* the githubAccessToken a node yields: the one in its inputs unless that is
\* undefined, else the one of its stored credential, if it has one
YieldedToken(nodeData) ==
    IF nodeData.inputs.githubAccessToken # Undef
        THEN nodeData.inputs.githubAccessToken
    ELSE IF nodeData.credential \in DOMAIN creds
        THEN creds[nodeData.credential].githubAccessToken
    ELSE Undef

\* C21: init asks for no Copilot token before it is called, and each call is for
\* some node: when the node yields a non-empty githubAccessToken the call is a
\* getCopilotToken call keyed by the node's credential id, by that token when
\* the node has no credential id, which is answered from the cache or sends one
\* exchange request authorized by that token; when it yields none, or an empty
\* one, the call ends at once with 'GitHub access token not found', has sent no
\* request, and leaves the token cache as it is.
C21_InitGetsTokenOnDemand ==
    [][ \A c \in Slots :
          StartsInit(c) =>
            \E nodeData \in InitNodes :
              LET token == YieldedToken(nodeData)
              IN  IF token \in {Undef, ""}
                    THEN /\ calls'[c].op = "init"
                         /\ calls'[c].pc = "done"
                         /\ calls'[c].key = nodeData.credential
                         /\ calls'[c].threw = "GitHub access token not found"
                         /\ calls'[c].returned = Undef
                         /\ calls'[c].upstream = NoUpstream
                         /\ calls'[c].request = NoRequest
                         /\ copilotTokenCache' = copilotTokenCache
                    ELSE /\ calls'[c].op = "getCopilotToken"
                         /\ calls'[c].threw = Undef
                         /\ calls'[c].key = IF nodeData.credential \in {Undef, ""}
                                                THEN token ELSE nodeData.credential
                         /\ \/ /\ calls'[c].pc = "done"
                               /\ calls'[c].returned # Undef
                               /\ calls'[c].upstream = NoUpstream
                            \/ /\ calls'[c].pc = "awaitExchange"
                               /\ calls'[c].request.url = "COPILOT_TOKEN_URL"
                               /\ calls'[c].request.authorization = token
                               /\ calls'[c].upstream = [NoUpstream EXCEPT !.exchange = 1] ]_vars

\* C21 witness: the init of a node without a credential id has got cop-1 from
\* the exchange and the cache holds it under the node's access token; the init
\* of the node of cred-1, whose githubAccessToken is empty, has failed, and
\* cred-1 has no cache entry.
C21_Witness ==
    \E c, d \in Slots :
        /\ calls[c].op = "getCopilotToken" /\ calls[c].pc = "done"
        /\ calls[c].key = PastedToken /\ calls[c].via = "exchange"
        /\ copilotTokenCache[PastedToken].token = "cop-1"
        /\ calls[d].op = "init" /\ calls[d].pc = "done"
        /\ calls[d].key = "cred-1"
        /\ calls[d].threw = "GitHub access token not found"
        /\ creds["cred-1"].githubAccessToken = ""
        /\ copilotTokenCache["cred-1"] = NoEntry

-----------------------------------------------------------------------------
(* Properties of the chat model node's listModels, under SpecList *)

\* the credential id listModels finds for a node, and the githubAccessToken the
\* node yields for it
ListedCredential(nodeData) ==
    IF nodeData.inputs.credentialId \notin {Undef, ""}
        THEN nodeData.inputs.credentialId
        ELSE nodeData.credential
ListedToken(nodeData) ==
    IF nodeData.inputs.githubAccessToken # Undef
        THEN nodeData.inputs.githubAccessToken
    ELSE IF ListedCredential(nodeData) \in DOMAIN creds
        THEN creds[ListedCredential(nodeData)].githubAccessToken
    ELSE Undef

\* slot c's listModels has ended with the fallback list and no error
ReturnedFallback(call) ==
    /\ call.op = "listModels" /\ call.pc = "done"
    /\ call.via = "fallback"
    /\ call.listed = fallbackModels
    /\ call.threw = Undef

\* this step is slot c's listModels taking the answer to its exchange request /
\* to its model-list request
ListExchangeAnswered(c) ==
    /\ calls[c].pc = "awaitListExchange"
    /\ calls'[c].pc # "awaitListExchange"
ModelListAnswered(c) ==
    /\ calls[c].pc = "awaitModels"
    /\ calls'[c].pc = "done"

-----------------------------------------------------------------------------
(* Independence of the token cache's keys, under SpecToken *)

\* C23: a getCopilotToken call for key k, whichever way it goes (answered from
\* the cache, seeded from the snapshot, exchange granted or refused), leaves
\* the entry of every other key as it was, whatever the other slot's call is
\* doing; and no entry changes but in a step of a call for its key.
C23_OtherKeysAreUntouched ==
    [][ /\ \A c \in Slots :
              StartsGetCopilotToken(c) \/ ExchangeAnswered(c) =>
                  \A k \in CacheKeys \ {calls'[c].key} :
                      copilotTokenCache'[k] = copilotTokenCache[k]
        /\ \A k \in CacheKeys :
              copilotTokenCache'[k] # copilotTokenCache[k] =>
                  \E c \in Slots :
                      /\ StartsGetCopilotToken(c) \/ ExchangeAnswered(c)
                      /\ calls'[c].key = k ]_vars

\* C23 witness: two calls for different keys have ended, one seeded from its
\* snapshot while the other awaited its exchange, and each key's entry holds
\* the token its own call returned.
C23_Witness ==
    \E c, d \in Slots :
        /\ calls[c].pc = "done" /\ calls[c].via = "exchange"
        /\ calls[d].pc = "done" /\ calls[d].via = "snapshot"
        /\ calls[c].key # calls[d].key
        /\ copilotTokenCache[calls[c].key] # NoEntry
        /\ copilotTokenCache[calls[d].key] # NoEntry
        /\ copilotTokenCache[calls[c].key].token = calls[c].returned
        /\ copilotTokenCache[calls[d].key].token = calls[d].returned
        /\ calls[c].returned # calls[d].returned

-----------------------------------------------------------------------------
(* Properties of normalizeCopilotModels, under SpecNormalize *)

\* the payload's shapes in the order they are tried, and the elements of the
\* first that is an array (none when none is)
ShapeOrder == <<"self", "data", "models", "items">>
FirstArray(payload) ==
    LET arrays == { i \in 1..Len(ShapeOrder) : payload[ShapeOrder[i]].isArray }
    IN  IF arrays = {} THEN <<>>
        ELSE payload[ShapeOrder[CHOOSE i \in arrays : \A j \in arrays : i <= j]].elems

\* the model name an element carries, without the blanks around it: a string
\* itself, an object's first of id, name, model and slug that is not undefined;
\* <<>> when it carries none
ModelName(item) ==
    LET fields == <<item.id, item.name, item.model, item.slug>>
        given == { i \in 1..Len(fields) : fields[i] # UndefText }
    IN  IF item.kind = "string" THEN Trim(item.text)
        ELSE IF item.kind = "object" /\ given # {}
            THEN Trim(fields[CHOOSE i \in given : \A j \in given : i <= j])
        ELSE <<>>

\* where name first occurs in array
FirstAt(array, name) ==
    CHOOSE i \in 1..Len(array) :
        /\ ModelName(array[i]) = name
        /\ \A j \in 1..(i - 1) : ModelName(array[j]) # name

\* options lists the names of array: each non-empty and without blanks around
\* it, none twice, all of them, in the order of their first occurrence
ListsNamesOf(options, array) ==
    /\ \A i \in 1..Len(options) :
          /\ options[i].name # <<>>
          /\ Head(options[i].name) # " "
          /\ options[i].name[Len(options[i].name)] # " "
    /\ \A i, j \in 1..Len(options) : i # j => options[i].name # options[j].name
    /\ { options[i].name : i \in 1..Len(options) }
          = { ModelName(array[j]) : j \in 1..Len(array) } \ {<<>>}
    /\ \A i, j \in 1..Len(options) :
          i < j => FirstAt(array, options[i].name) < FirstAt(array, options[j].name)

\* C24: the models listModels returns for a fetched payload are those of the
\* first of the payload itself, its data, its models and its items that is an
\* array, and of no later one: the trimmed non-empty names of its elements, none
\* twice, in the order of their first occurrence.  When that array holds no
\* name, or no shape is an array, normalizeCopilotModels returns no model and
\* the call falls back, whatever a later field holds.
C24_FirstArrayShapeIsListed ==
    \A c \in Slots :
        calls[c].op = "listModels" /\ calls[c].pc = "done" /\ calls[c].fetched.ok =>
            LET array == FirstArray(calls[c].fetched.payload)
            IN  IF \A j \in 1..Len(array) : ModelName(array[j]) = <<>>
                  THEN calls[c].via = "fallback"
                  ELSE /\ calls[c].via = "fetched"
                       /\ ListsNamesOf(calls[c].listed, array)
                       /\ copilotModelCache[calls[c].modelKey].models = calls[c].listed

\* C24 witness: a payload whose data holds names that repeat and need trimming
\* and whose models is an array too has been listed: four names from data's
\* seven elements.
C24_Witness ==
    \E c \in Slots :
        /\ calls[c].op = "listModels" /\ calls[c].pc = "done" /\ calls[c].via = "fetched"
        /\ calls[c].fetched.payload.data = MixedArray
        /\ calls[c].fetched.payload.models = PlainArray
        /\ Len(calls[c].listed) = 4
        /\ calls[c].listed[1].name = <<"o3-mini">>
        /\ calls[c].listed[2] = Option(<<"GPT-4o">>, <<"gpt-4o">>)

-----------------------------------------------------------------------------
(* The poll's read-modify-write, under SpecRace *)

\* C25: what an authorized poll writes is the bag it read before it called the
\* token endpoint with the four token attributes of its response, whatever the
\* credential holds by then: an attribute that another request has changed since
\* the read goes back to the value read.  The stored githubAccessToken changes
\* only in such a write and is then the writing poll's, so of two authorized
\* polls the one that writes last leaves its token.
C25_PollWritesWhatItRead ==
    [][ /\ \A c \in Slots :
              PollAnswered(c) /\ GotAccessToken(calls'[c]) =>
                  LET id   == calls[c].key
                      read == calls[c].decryptedData
                      got  == calls'[c].received.tokenData
                  IN  /\ creds'[id] =
                            [a \in DOMAIN EmptyBag |->
                                CASE a = "githubAccessToken"     -> got.access_token
                                  [] a = "githubTokenType"       -> got.token_type
                                  [] a = "githubTokenScope"      -> got.scope
                                  [] a = "githubTokenReceivedAt" -> now
                                  [] OTHER                       -> read[a]]
                      /\ \A a \in DOMAIN EmptyBag \ TokenAttributes :
                            creds[id][a] # read[a] => creds'[id][a] # creds[id][a]
        /\ \A id \in DOMAIN creds :
              creds'[id].githubAccessToken # creds[id].githubAccessToken =>
                  \E c \in Slots :
                      /\ PollAnswered(c) /\ GotAccessToken(calls'[c])
                      /\ calls[c].key = id
                      /\ creds'[id].githubAccessToken
                            = calls'[c].received.tokenData.access_token ]_vars

\* C25 witness: the dialog saved a client id for the credential while a poll
\* was waiting for the token endpoint; the poll then wrote its token, and the
\* client id is gone.
C25_Witness ==
    \E c, d \in Slots :
        /\ calls[c].op = "pollDeviceFlow" /\ calls[c].pc = "done"
        /\ calls[c].repoWrites = 1
        /\ calls[d].op = "saveCredential" /\ calls[d].pc = "done"
        /\ calls[d].key = calls[c].key
        /\ creds[calls[c].key].clientId = Undef
        /\ creds[calls[c].key].githubAccessToken = "gho_B"

-----------------------------------------------------------------------------
(* The cached token and the credential's access token, under SpecRotation *)

\* C26: while the entry of a key is fresh, the node's getCopilotToken call for
\* the key ends at once with the entry's token, with no request, whichever
\* access token the credential holds or the node passes; a poll that replaces
\* the credential's access token leaves the token cache as it is; an entry
\* changes only when a call for its key seeds it from the snapshot or stores
\* the exchange's answer, and is never removed.  Once the entry of cred-1 is
\* within 300 seconds of its expiry, a call asks the exchange endpoint with the
\* access token it is given.
C26_EntryOutlivesAccessToken ==
    [][ /\ \A c \in Slots :
              /\ StartsInit(c) /\ FreshEntry(calls'[c].key) =>
                    /\ calls'[c].pc = "done"
                    /\ calls'[c].returned = copilotTokenCache[calls'[c].key].token
                    /\ calls'[c].via = "cache"
                    /\ calls'[c].upstream = NoUpstream
                    /\ copilotTokenCache' = copilotTokenCache
              /\ StartsInit(c) /\ calls'[c].key = "cred-1" /\ ~FreshEntry("cred-1") =>
                    /\ calls'[c].pc = "awaitExchange"
                    /\ calls'[c].request.authorization
                            \in {creds["cred-1"].githubAccessToken, PastedToken}
              /\ PollAnswered(c) => copilotTokenCache' = copilotTokenCache
        /\ \A k \in CacheKeys :
              copilotTokenCache'[k] # copilotTokenCache[k] =>
                  /\ copilotTokenCache'[k] # NoEntry
                  /\ \E c \in Slots :
                        /\ calls'[c].key = k
                        /\ \/ StartsInit(c) /\ calls'[c].via = "snapshot"
                           \/ ExchangeAnswered(c) /\ calls'[c].via = "exchange" ]_vars

\* C26 witness: cred-1's access token has been replaced by gho_B, and a node of
\* cred-1 has just got, from the cache, the Copilot token issued for gho_A.
C26_Witness ==
    \E c \in Slots :
        /\ creds["cred-1"].githubAccessToken = "gho_B"
        /\ calls[c].op = "getCopilotToken" /\ calls[c].pc = "done"
        /\ calls[c].key = "cred-1"
        /\ calls[c].via = "cache"
        /\ calls[c].returned = CopilotTokenFor("gho_A")
        /\ calls[c].returned # CopilotTokenFor(creds["cred-1"].githubAccessToken)

-----------------------------------------------------------------------------
(* An exchanged token that is stale on arrival, under SpecChatModel *)

\* the exchange endpoint's grants whose normalized expires_at is no later than
\* now + 300
StaleGrants ==
    { resp \in ExchangeResponses :
        resp.ok /\ ~StrictlyLater(normalizeExpiresAt(resp.expires_at), now, 300) }

\* C27: getCopilotToken does not look at the freshness of the token the
\* exchange gives.  When the response's normalized expires_at is <= now + 300
\* the call still returns the token, with no error, and the key's entry becomes
\* that token with that expiry; a later call for the key is never answered from
\* such an entry and sends an exchange request of its own (the credential's
\* snapshot is not fresh either, or the first call would not have asked).
C27_StaleGrantIsStoredNotServed ==
    /\ [](\A k \in CacheKeys : StaleEntry(k) => ~FreshSnapshot(creds[k]))
    /\ [][ \A c \in Slots :
              /\ \A resp \in StaleGrants :
                    GetCopilotTokenEnd(c, resp) =>
                        /\ calls'[c].pc = "done"
                        /\ calls'[c].returned = resp.token
                        /\ calls'[c].threw = Undef
                        /\ copilotTokenCache'[calls[c].key] =
                              [token |-> resp.token,
                               expiresAt |-> normalizeExpiresAt(resp.expires_at)]
                        /\ StaleEntry(calls[c].key)'
              /\ StartsGetCopilotToken(c) /\ StaleEntry(calls'[c].key) =>
                    /\ calls'[c].via # "cache"
                    /\ calls'[c].returned = Undef
                    /\ calls'[c].pc = "awaitExchange"
                    /\ calls'[c].upstream.exchange = 1
                    /\ calls'[c].request.url = "COPILOT_TOKEN_URL" ]_vars

\* C27 witness: a call for cred-1 has returned cop-1, granted with an expiry
\* 300 seconds after the start; the entry holds it and is stale, and the other
\* slot's call for cred-1 is waiting for an exchange of its own.
C27_Witness ==
    \E c, d \in Slots :
        /\ calls[c].pc = "done" /\ calls[c].via = "exchange"
        /\ calls[c].key = "cred-1"
        /\ calls[c].returned = "cop-1"
        /\ copilotTokenCache["cred-1"] = [token |-> "cop-1", expiresAt |-> InSeconds(300)]
        /\ StaleEntry("cred-1")
        /\ calls[d].pc = "awaitExchange" /\ calls[d].key = "cred-1"
        /\ calls[d].upstream.exchange = 1

-----------------------------------------------------------------------------
(* The device-flow configuration is never empty, under SpecConfig *)

\* C28: whatever overrides a credential holds (absent, empty or set) and
\* whatever the environment, resolveDeviceFlowConfig gives a clientId and a
\* scope that are neither undefined nor empty; so neither route answers 400
\* 'Missing GitHub device flow client ID', and every request to the
\* authorization server carries a client id (and a device-code request a scope).
C28_ConfigIsNeverEmpty ==
    /\ \A bag \in ConfigBags \cup { creds[id] : id \in DOMAIN creds } :
          /\ resolveDeviceFlowConfig(bag).clientId \notin {Undef, ""}
          /\ resolveDeviceFlowConfig(bag).scope \notin {Undef, ""}
    /\ \A c \in Slots :
          /\ calls[c].response.message # "Missing GitHub device flow client ID"
          /\ calls[c].pc \in {"awaitDeviceCode", "awaitAccessToken"} =>
                calls[c].request.client_id \notin {Undef, ""}
          /\ calls[c].pc = "awaitDeviceCode" => calls[c].request.scope \notin {Undef, ""}
          /\ calls[c].op \in {"startDeviceFlow", "pollDeviceFlow"}
                /\ calls[c].pc = "done" /\ calls[c].response.code = 400 =>
                    /\ calls[c].op = "pollDeviceFlow"
                    /\ calls[c].upstream.deviceCode = 0

\* C28 witness: the credential's overrides and the environment's variables are
\* all empty strings, and a poll has gone out with the built-in client id.
C28_Witness ==
    \E c \in Slots :
        /\ calls[c].op = "pollDeviceFlow" /\ calls[c].pc = "awaitAccessToken"
        /\ creds[calls[c].key].deviceFlowClientId = ""
        /\ creds[calls[c].key].clientId = ""
        /\ creds[calls[c].key].deviceFlowScope = ""
        /\ creds[calls[c].key].scope = ""
        /\ env.GITHUB_DEVICE_FLOW_CLIENT_ID = ""
        /\ env.GITHUB_DEVICE_FLOW_SCOPE = ""
        /\ calls[c].request.client_id = DEFAULT_GITHUB_DEVICE_FLOW_CLIENT_ID
        /\ resolveDeviceFlowConfig(creds[calls[c].key]).scope = DEFAULT_GITHUB_DEVICE_FLOW_SCOPE

-----------------------------------------------------------------------------
(* Who writes the credentials, under SpecLife *)

\* this step is a step of slot c's call that is not an authorized poll's write
OtherThanAuthorizedPoll(c) ==
    \/ StartsRoute(c, "startDeviceFlow") \/ StartAnswered(c)
    \/ StartsRoute(c, "pollDeviceFlow")
    \/ PollAnswered(c) /\ ~GotAccessToken(calls'[c])
    \/ StartsInit(c) \/ ExchangeAnswered(c)
    \/ StartsRoute(c, "listModels") \/ ListExchangeAnswered(c) \/ ModelListAnswered(c)

\* C29: the credentials change only in the step of a poll whose answer carries a
\* non-empty access_token, and then only the polled credential; the steps of
\* startDeviceFlow, of a poll with any other outcome, of init / getCopilotToken
\* and of listModels leave them as they are.  No credential's copilotToken or
\* copilotTokenExpiresAt ever changes: an exchanged token lives in the cache
\* only.  So the entry of cred-1, which was created without a Copilot token, is
\* only ever filled by an exchange, also after a restart has emptied the cache,
\* and only cred-2, whose Copilot token was stored elsewhere, is seeded from its
\* snapshot.
C29_OnlyAuthorizedPollWrites ==
    /\ [](/\ \A id \in CredentialIds :
                /\ creds[id].copilotToken = LifeCredentials[id].copilotToken
                /\ creds[id].copilotTokenExpiresAt = LifeCredentials[id].copilotTokenExpiresAt
          /\ \A c \in Slots : calls[c].via = "snapshot" => calls[c].key = "cred-2"
          /\ copilotTokenCache["cred-1"] # NoEntry =>
                \E resp \in NodeExchangeResponses :
                    resp.ok /\ copilotTokenCache["cred-1"] = IssuedBy(resp))
    /\ [][ /\ creds' # creds =>
                \E c \in Slots :
                    /\ PollAnswered(c) /\ GotAccessToken(calls'[c])
                    /\ \A id \in CredentialIds \ {calls[c].key} : creds'[id] = creds[id]
           /\ \A c \in Slots : OtherThanAuthorizedPoll(c) => creds' = creds
           /\ copilotTokenCache["cred-1"] = NoEntry /\ copilotTokenCache'["cred-1"] # NoEntry =>
                \E c \in Slots :
                    /\ ExchangeAnswered(c) \/ ListExchangeAnswered(c)
                    /\ calls[c].key = "cred-1" ]_vars

\* C29 witness: a poll has stored gho_A in cred-1 and an exchange for cred-1 has
\* put cop-1 in the cache, and cred-1 still holds no Copilot token; cred-2's
\* node was seeded from the Copilot token cred-2 holds.
C29_Witness ==
    /\ creds["cred-1"].githubAccessToken = "gho_A"
    /\ creds["cred-1"].githubTokenReceivedAt # NoNumber
    /\ copilotTokenCache["cred-1"] # NoEntry
    /\ copilotTokenCache["cred-1"].token = "cop-1"
    /\ creds["cred-1"].copilotToken = Undef
    /\ creds["cred-1"].copilotTokenExpiresAt = NoNumber
    /\ copilotTokenCache["cred-2"] # NoEntry
    /\ copilotTokenCache["cred-2"].token = creds["cred-2"].copilotToken
    /\ \E c \in Slots : calls[c].op = "listModels" /\ calls[c].pc = "done"

-----------------------------------------------------------------------------
(* The model cache, under SpecList *)

\* the model cache holds for key an entry whose expiry is strictly later than now
LiveModels(key) ==
    /\ copilotModelCache[key] # NoModelEntry
    /\ \/ copilotModelCache[key].expiresAt.k > now.k
       \/ /\ copilotModelCache[key].expiresAt.k = now.k
          /\ copilotModelCache[key].expiresAt.u > now.u

\* C30: no entry of the model cache holds an empty list.  An entry is stored
\* when listModels has fetched a list with a model, with that list and the
\* expiry now + 15 minutes.  A listModels call that looks its key up is answered
\* with the entry's models, with no exchange and no model-list request and the
\* cache as it was, exactly when the entry's expiry is strictly later than now;
\* otherwise it is not answered from the cache, and the key is left without an
\* entry (an expired entry is deleted), every other entry as it was.
C30_ModelCacheInvariant ==
    /\ [](\A k \in ModelCacheKeys :
              copilotModelCache[k] # NoModelEntry => Len(copilotModelCache[k].models) > 0)
    /\ [][ \A c \in Slots :
              /\ ModelListAnswered(c) /\ copilotModelCache' # copilotModelCache =>
                    /\ calls'[c].via = "fetched"
                    /\ copilotModelCache' =
                          [copilotModelCache EXCEPT ![calls[c].modelKey] =
                              [models    |-> calls'[c].listed,
                               expiresAt |-> Num(now.k + 15 * 60, now.u)]]
              /\ ModelListAnswered(c) /\ calls'[c].via = "fetched" =>
                    copilotModelCache'[calls[c].modelKey].expiresAt = Num(now.k + 15 * 60, now.u)
              /\ StartsRoute(c, "listModels") /\ calls'[c].modelKey \in ModelCacheKeys =>
                    LET k == calls'[c].modelKey
                    IN  IF LiveModels(k)
                          THEN /\ calls'[c].pc = "done"
                               /\ calls'[c].via = "modelCache"
                               /\ calls'[c].listed = copilotModelCache[k].models
                               /\ calls'[c].upstream = NoUpstream
                               /\ calls'[c].modelRequests = 0
                               /\ calls'[c].request = NoRequest
                               /\ copilotModelCache' = copilotModelCache
                               /\ copilotTokenCache' = copilotTokenCache
                          ELSE /\ calls'[c].via # "modelCache"
                               /\ calls'[c].pc \in {"awaitListExchange", "awaitModels"}
                               /\ copilotModelCache' =
                                     [copilotModelCache EXCEPT ![k] = NoModelEntry] ]_vars

\* C30 witness: fifteen minutes after the start a listModels call found the
\* entry of its key, stored at the start, expired at that very instant, deleted
\* it and fetched the list again; the new entry expires fifteen minutes on.
C30_Witness ==
    \E c \in Slots :
        /\ now = NumAdd(StartTime, COPILOT_MODEL_CACHE_TTL_MS)
        /\ calls[c].op = "listModels" /\ calls[c].pc = "done" /\ calls[c].via = "fetched"
        /\ calls[c].modelDeletes = 1 /\ calls[c].modelSets = 1
        /\ copilotModelCache[calls[c].modelKey].expiresAt
                = NumAdd(now, COPILOT_MODEL_CACHE_TTL_MS)
        /\ copilotModelCache[calls[c].modelKey].models = calls[c].listed

====
